---- MODULE Spec2Model ----
(***************************************************************************)
(* GoodBoy.AI: council routing, evolution ledger, teachings store,         *)
(* conversation memory and the /chat pipeline, modelled from the Python    *)
(* sources under src/app.                                                  *)
(*                                                                         *)
(* Text is modelled by TLA+ strings (TLC evaluates Len, \o, SubSeq and     *)
(* Tail on strings).  Optional values are modelled as sequences of length  *)
(* at most one: None is <<>> and a present value v is <<v>>.  Floating     *)
(* point scores are modelled as integers in hundredths (1.0 is 100).       *)
(***************************************************************************)
EXTENDS Integers, Sequences, FiniteSets, TLC

VARIABLES
    message,          \* council.process: the message argument
    mode,             \* council.process: the mode argument
    routing_hint,     \* council.process: the routing_hint argument (Optional[List[str]])
    routing,          \* council.process: the routing decision computed
    evolution_state,  \* EvolutionSystem.evolution_state
    evolution_file,   \* content of memory/evolution.json (Optional)
    lessons,          \* TeachingsStore.lessons
    teachings_file,   \* content of memory/teachings.jsonl
    messages,         \* MemoryManager.messages
    messages_file,    \* content of memory/messages.jsonl
    now,              \* the wall clock read by datetime.now()
    context_result,   \* the last value returned by MemoryManager.get_context
    patterns,         \* LearningEngine.patterns
    patterns_file,    \* content of memory/learned_patterns.jsonl
    reflections,      \* content of memory/self_reflections.jsonl
    backend,          \* llm: whether get_model succeeds, and its error otherwise
    inhibitions,      \* InstinctiveResponseLayer.inhibitions
    self_awareness,   \* UnifiedBrain.self_awareness (state and task counters)
    chain,            \* UnifiedBrain.current_chain (Optional)
    pc,               \* the position of the /chat request being served
    requests,         \* number of /chat requests accepted so far
    request,          \* the ChatRequest being served
    chat_response,    \* the last HTTP response of /chat (Optional)
    via,              \* "brain", or "fallback" once brain.think has raised
    analysis,         \* think: query_analysis (Optional)
    memory_context,   \* think: memory_context; fallback: the context argument
    learned_hint,     \* think: routing_hint
    relevant_lessons, \* process: positions of relevant_lessons in the store
    consult_i,        \* process: index of the next name of routing["agents"]
    trace,            \* process: trace
    council_result,   \* the dictionary returned by process (Optional)
    final_response,   \* think: final_response; chat: response_text (Optional)
    suggested,        \* the last list returned by suggest_actions (Optional)
    overseer_file,    \* content of memory/overseer_suggestions.jsonl
    lessons_result,   \* the last list returned by get_relevant_lessons (Optional)
    search_result,    \* the last list returned by MemoryManager.search (Optional)
    hint_result,      \* the last value returned by get_routing_hint (Optional)
    cleaned,          \* run_janitor: records dropped by the last clean-up (Optional)
    cfg,              \* Clerk.cfg: the configuration read by load_config
    autonomy_token,   \* whether data/autonomy_token.txt exists
    effects,          \* consent-log lines written and tools invoked, in order
    clerk_result,     \* the last ClerkResult returned by Clerk.execute (Optional)
    llm_calls         \* model.generate calls made since process was entered

routerVars    == <<message, mode, routing_hint, routing>>
evolutionVars == <<evolution_state, evolution_file>>
overseerVars  == <<suggested, overseer_file>>
queryVars     == <<lessons_result, search_result, hint_result, cleaned>>
callVars      == <<llm_calls>>
clerkVars     == <<cfg, autonomy_token, effects, clerk_result>>
teachingVars  == <<lessons, teachings_file>>
memoryVars    == <<messages, messages_file, now, context_result>>
learningVars  == <<patterns, patterns_file>>
brainVars     == <<reflections, backend, inhibitions, self_awareness, chain>>
chatVars      == <<pc, requests, request, chat_response, via, analysis, memory_context,
                   learned_hint, relevant_lessons, consult_i, trace, council_result,
                   final_response>>
vars == <<routerVars, evolutionVars, overseerVars, queryVars, clerkVars, callVars, teachingVars, memoryVars, learningVars,
          brainVars, chatVars>>

(***************************************************************************)
(* Optional values                                                         *)
(***************************************************************************)
None == <<>>
Some(v) == <<v>>
IsNone(o) == o = <<>>
Get(o) == o[1]

(***************************************************************************)
(* Python str operations                                                   *)
(***************************************************************************)
UpperChars == "ABCDEFGHIJKLMNOPQRSTUVWXYZ"
LowerChars == "abcdefghijklmnopqrstuvwxyz"

\* one character of str.lower()
LowerChar(c) ==
    IF \E i \in 1..Len(UpperChars) : SubSeq(UpperChars, i, i) = c
    THEN LET i == CHOOSE j \in 1..Len(UpperChars) : SubSeq(UpperChars, j, j) = c
         IN  SubSeq(LowerChars, i, i)
    ELSE c

RECURSIVE Lower(_)
\* str.lower(): every character lowered, evaluated by halves
Lower(s) ==
    IF Len(s) = 0 THEN ""
    ELSE IF Len(s) = 1 THEN LowerChar(s)
    ELSE Lower(SubSeq(s, 1, Len(s) \div 2)) \o Lower(SubSeq(s, Len(s) \div 2 + 1, Len(s)))

\* the Python test `w in s` on two strings: w is a substring of s
Contains(s, w) ==
    \E i \in 1..(Len(s) - Len(w) + 1) : SubSeq(s, i, i + Len(w) - 1) = w

\* any(w in s for w in words)
AnyIn(s, words) == \E i \in 1..Len(words) : Contains(s, words[i])

\* the characters str.split() and str.strip() treat as whitespace
IsSpace(c) == c \in {" ", "\n", "\t", "\r"}

\* the positions of s holding a character that is not whitespace
Inked(s) == {i \in 1..Len(s) : ~IsSpace(SubSeq(s, i, i))}

\* str.split(): the list of whitespace-separated words
Split(s) ==
    LET starts == {i \in Inked(s) : (i - 1) \notin Inked(s)}
        start(n) == CHOOSE i \in starts : Cardinality({j \in starts : j < i}) = n - 1
        end(i) == CHOOSE j \in Inked(s) :
                      /\ j >= i
                      /\ (j + 1) \notin Inked(s)
                      /\ \A h \in i..j : h \in Inked(s)
    IN  [n \in 1..Cardinality(starts) |-> SubSeq(s, start(n), end(start(n)))]

\* str.strip()
Strip(s) ==
    IF Inked(s) = {} THEN ""
    ELSE SubSeq(s, CHOOSE i \in Inked(s) : \A j \in Inked(s) : i <= j,
                   CHOOSE i \in Inked(s) : \A j \in Inked(s) : i >= j)

\* str.startswith and str.endswith
StartsWith(s, w) == Len(s) >= Len(w) /\ SubSeq(s, 1, Len(w)) = w
EndsWith(s, w) == Len(s) >= Len(w) /\ SubSeq(s, Len(s) - Len(w) + 1, Len(s)) = w

\* str.find: the 1-based index of the first occurrence of w in s, 0 when absent
Find(s, w) ==
    IF Contains(s, w)
    THEN CHOOSE i \in 1..(Len(s) - Len(w) + 1) :
             /\ SubSeq(s, i, i + Len(w) - 1) = w
             /\ \A j \in 1..(i - 1) : SubSeq(s, j, j + Len(w) - 1) /= w
    ELSE 0

\* the Python slice s[:n] for n >= 0
Prefix(s, n) == SubSeq(s, 1, IF n < Len(s) THEN n ELSE Len(s))

\* the elements of a sequence, as a set
Range(seq) == {seq[i] : i \in 1..Len(seq)}

(***************************************************************************)
(* Council router (src/app/council.py)                                     *)
(***************************************************************************)
\* CouncilRouter.__init__: the names of self.agents, in registry order
AgentNames == <<"Batman", "Alfred", "Jarvis", "DaVinci", "Architect", "Analyst">>

CodeWords     == <<"code", "build", "fix", "implement", "debug", "function", "class", "error">>
ScheduleWords == <<"schedule", "remind", "meet", "calendar", "appointment", "time">>
CreativeWords == <<"creative", "design", "idea", "brainstorm", "imagine", "concept">>
SecurityWords == <<"security", "threat", "protect", "safe", "password", "permission">>
DataWords     == <<"data", "analyze", "report", "metrics", "stats", "numbers">>
EmailWords    == <<"email", "send", "message", "write", "draft">>

\* the signals dictionary of _route_auto
signals(msg) ==
    LET msg_lower == Lower(msg) IN
    [code     |-> AnyIn(msg_lower, CodeWords),
     schedule |-> AnyIn(msg_lower, ScheduleWords),
     creative |-> AnyIn(msg_lower, CreativeWords),
     security |-> AnyIn(msg_lower, SecurityWords),
     data     |-> AnyIn(msg_lower, DataWords),
     email    |-> AnyIn(msg_lower, EmailWords)]

\* _route_auto with the creative branch tested before the scheduling branch
_route_auto_creative_first(msg) ==
    LET s == signals(msg) IN
    IF s.code THEN
        [mode |-> "auto", agents |-> <<"Architect", "Analyst">>,
         rationale |-> "Code/building detected -> Architect + Analyst"]
    ELSE IF s.creative THEN
        [mode |-> "auto", agents |-> <<"DaVinci", "Architect">>,
         rationale |-> "Creative request -> DaVinci + Architect"]
    ELSE IF s.schedule \/ s.email THEN
        [mode |-> "auto", agents |-> <<"Alfred", "Jarvis">>,
         rationale |-> "Scheduling/communication -> Alfred + Jarvis"]
    ELSE IF s.security THEN
        [mode |-> "auto", agents |-> <<"Batman", "Analyst">>,
         rationale |-> "Security concern -> Batman + Analyst"]
    ELSE IF s.data THEN
        [mode |-> "auto", agents |-> <<"Analyst", "Jarvis">>,
         rationale |-> "Data analysis -> Analyst + Jarvis"]
    ELSE
        [mode |-> "auto", agents |-> <<"Jarvis", "Analyst">>,
         rationale |-> "General query -> Jarvis (core) + Analyst"]

_route_auto(msg) ==
    LET s == signals(msg) IN
    IF s.code THEN
        [mode |-> "auto", agents |-> <<"Architect", "Analyst">>,
         rationale |-> "Code/building detected -> Architect + Analyst"]
    ELSE IF s.schedule \/ s.email THEN
        [mode |-> "auto", agents |-> <<"Alfred", "Jarvis">>,
         rationale |-> "Scheduling/communication -> Alfred + Jarvis"]
    ELSE IF s.creative THEN
        [mode |-> "auto", agents |-> <<"DaVinci", "Architect">>,
         rationale |-> "Creative request -> DaVinci + Architect"]
    ELSE IF s.security THEN
        [mode |-> "auto", agents |-> <<"Batman", "Analyst">>,
         rationale |-> "Security concern -> Batman + Analyst"]
    ELSE IF s.data THEN
        [mode |-> "auto", agents |-> <<"Analyst", "Jarvis">>,
         rationale |-> "Data analysis -> Analyst + Jarvis"]
    ELSE
        [mode |-> "auto", agents |-> <<"Jarvis", "Analyst">>,
         rationale |-> "General query -> Jarvis (core) + Analyst"]

_route_reflex(msg) ==
    [mode |-> "reflex", agents |-> <<"Jarvis">>, rationale |-> "Fast reflex mode"]

_route_council(msg) ==
    [mode |-> "council", agents |-> AgentNames, rationale |-> "Full council deliberation"]

\* _route_strategic choosing Batman's partners from the message keywords
_route_strategic_from_keywords(msg) ==
    [mode |-> "strategic",
     agents |-> IF signals(msg).code
                THEN <<"Batman", "Architect">>
                ELSE <<"Batman", "Architect", "Analyst">>,
     rationale |-> "Strategic analysis"]

_route_strategic(msg) ==
    [mode |-> "strategic", agents |-> <<"Batman", "Architect", "Analyst">>,
     rationale |-> "Strategic analysis"]

\* Python truthiness of an Optional[List[str]]: neither None nor the empty list
Truthy(hint) == ~IsNone(hint) /\ Len(Get(hint)) > 0

\* the routing logic with the hint consulted only when no keyword matched
Route_keywords_before_hint(msg, md, hint) ==
    LET s == signals(msg)
        matched == s.code \/ s.schedule \/ s.creative \/ s.security \/ s.data \/ s.email
    IN
    IF md = "auto" /\ Truthy(hint) /\ ~matched THEN
        [mode |-> "auto", agents |-> Get(hint),
         rationale |-> "Optimized routing from learned patterns"]
    ELSE IF md = "auto" THEN _route_auto(msg)
    ELSE IF md = "reflex" THEN _route_reflex(msg)
    ELSE IF md = "council" THEN _route_council(msg)
    ELSE _route_strategic(msg)

\* the routing logic of CouncilRouter.process
Route(msg, md, hint) ==
    IF md = "auto" /\ Truthy(hint) THEN
        [mode |-> "auto", agents |-> Get(hint),
         rationale |-> "Optimized routing from learned patterns"]
    ELSE IF md = "auto" THEN _route_auto(msg)
    ELSE IF md = "reflex" THEN _route_reflex(msg)
    ELSE IF md = "council" THEN _route_council(msg)
    ELSE _route_strategic(msg)

(***************************************************************************)
(* Bounds of the model                                                     *)
(***************************************************************************)
MaxInteractions == 3   \* record_interaction calls explored
MaxGeneration   == 2   \* trigger_generation_increment calls explored
MaxLessons      == 2   \* lessons held by the teachings store
MaxUsage        == 3   \* mark_lesson_used hits explored per lesson
MaxMessages     == 3   \* records held by the conversation memory
MaxTime         == 1   \* ticks of the wall clock
MaxOverseerLog  == 2   \* lines of overseer_suggestions.jsonl explored
MaxReflections  == 1   \* reflections appended by reflect_on_performance
MaxPatterns     == 6   \* patterns appended by direct learn_from_interaction calls

(***************************************************************************)
(* Inputs                                                                  *)
(***************************************************************************)
Modes == {"auto", "reflex", "council", "strategic"}

RouterMessages ==
    {"hi",
     "What is the capital of France?",
     "Fix the login bug",
     "Can you schedule a meeting and also write the invite email?",
     "Remind me to debug the build",
     "Brainstorm a logo concept",
     "Is my password safe",
     "Show me the metrics report",
     "SEND IT",
     "sometimes",
     "Design a safe data plan",
     "protect the numbers",
     "draft a creative threat report",
     "classy calendar",
     "Imagine the stats"}

\* routing hints: None, the empty list, and lists of at most two persona names
HintInputs ==
    {None, Some(<<>>)} \cup
    {Some(<<a>>) : a \in {"Batman", "DaVinci"}} \cup
    {Some(<<"Analyst", "Batman">>), Some(<<"Jarvis", "Alfred">>)}

(***************************************************************************)
(* Evolution ledger (src/app/memory_evolution.py)                          *)
(***************************************************************************)
\* the keys of agent_proficiency in _load_evolution_state
ProficiencyKeys == {"Batman", "Alfred", "Jarvis Core", "DaVinci", "Architect", "Analyst"}

\* _load_evolution_state when evolution.json does not exist
InitialEvolutionState ==
    [generation             |-> 0,
     total_interactions     |-> 0,
     successful_resolutions |-> 0,
     agent_proficiency      |-> [a \in ProficiencyKeys |-> 100]]

\* the step added to a proficiency by record_interaction, in hundredths (0.1)
ProficiencyStep == 10

RECURSIVE BumpAll(_, _)
\* the loop `for agent in agents_used` of record_interaction
BumpAll(prof, agents_used) ==
    IF agents_used = <<>> THEN prof
    ELSE LET agent == Head(agents_used)
             next  == IF agent \in DOMAIN prof
                      THEN [prof EXCEPT ![agent] = @ + ProficiencyStep]
                      ELSE prof
         IN  BumpAll(next, Tail(agents_used))

\* agents_used arguments: every routing the council can produce, the empty
\* list, a ledger key, and a list naming a persona twice
AgentsUsedInputs ==
    {<<>>, <<"Jarvis">>, <<"Jarvis Core">>, AgentNames,
     <<"Batman", "Architect", "Analyst">>, <<"Architect", "Analyst">>,
     <<"Alfred", "Jarvis">>, <<"DaVinci", "Architect">>, <<"Batman", "Analyst">>,
     <<"Analyst", "Jarvis">>, <<"Jarvis", "Analyst">>, <<"Batman", "Batman">>}

\* record_interaction counting a success without counting the interaction
Recorded_success_uncounted(state, agents_used, success) ==
    IF success
    THEN [state EXCEPT !.successful_resolutions = @ + 1,
                       !.agent_proficiency = BumpAll(@, agents_used)]
    ELSE [state EXCEPT !.total_interactions = @ + 1]

\* the evolution state left by record_interaction
Recorded(state, agents_used, success) ==
    LET s1 == [state EXCEPT !.total_interactions = @ + 1]
    IN  IF success
        THEN [s1 EXCEPT !.successful_resolutions = @ + 1,
                        !.agent_proficiency = BumpAll(@, agents_used)]
        ELSE s1

\* suggest_actions proposes a consolidation when the total is a multiple of this
SuggestionPeriod == 100

\* the ledger is explored for MaxInteractions calls past a multiple of the period
record_interaction(agents_used, success) ==
    /\ evolution_state.total_interactions % SuggestionPeriod # MaxInteractions
    /\ evolution_state' = Recorded(evolution_state, agents_used, success)
    /\ evolution_file' = Some(evolution_state')       \* _save_evolution_state
    /\ UNCHANGED <<routerVars, overseerVars, queryVars, clerkVars, callVars, teachingVars, memoryVars, learningVars, brainVars, chatVars>>

\* a new generation that also starts the interaction count over
NewGeneration_restarts_count(state) ==
    [state EXCEPT !.generation = @ + 1, !.total_interactions = 0]

\* the evolution state left by trigger_generation_increment
NewGeneration(state) ==
    [state EXCEPT !.generation = @ + 1]

trigger_generation_increment ==
    /\ evolution_state.generation < MaxGeneration
    /\ evolution_state' = NewGeneration(evolution_state)
    /\ evolution_file' = Some(evolution_state')
    /\ UNCHANGED <<routerVars, overseerVars, queryVars, clerkVars, callVars, teachingVars, memoryVars, learningVars, brainVars, chatVars>>

\* get_status: success_rate is the quotient num / den, kept as the two
\* integers the code divides
get_status(state) ==
    [generation         |-> state.generation,
     total_interactions |-> state.total_interactions,
     success_rate       |-> [num |-> state.successful_resolutions,
                             den |-> IF state.total_interactions > 1
                                     THEN state.total_interactions ELSE 1],
     agent_proficiency  |-> state.agent_proficiency]

\* the type reflect_on_performance gives a reflection.  The scores 0.7 - 0.2
\* and 0.7 - 0.4 + 0.1 + 0.1 are the only ones modelled by 50 and both are
\* below 0.5 in floating point, so `confidence < 0.5` is `<= 50` here.
ReflectionType(confidence) ==
    IF confidence <= 50 THEN "limitation"
    ELSE IF confidence > 90 THEN "evolution"
    ELSE "learning"

\* the keys of agent_proficiency in dictionary order
ProficiencyOrder == <<"Batman", "Alfred", "Jarvis Core", "DaVinci", "Architect", "Analyst">>

\* the first key with the greatest value
LowPerformer_highest(prof) ==
    LET i == CHOOSE j \in 1..Len(ProficiencyOrder) :
                 \A h \in 1..Len(ProficiencyOrder) :
                     \/ prof[ProficiencyOrder[j]] > prof[ProficiencyOrder[h]]
                     \/ (prof[ProficiencyOrder[j]] = prof[ProficiencyOrder[h]] /\ j <= h)
    IN  ProficiencyOrder[i]

\* min(agent_proficiency.items(), key=value): the first key with the least value
LowPerformer(prof) ==
    LET i == CHOOSE j \in 1..Len(ProficiencyOrder) :
                 \A h \in 1..Len(ProficiencyOrder) :
                     \/ prof[ProficiencyOrder[j]] < prof[ProficiencyOrder[h]]
                     \/ (prof[ProficiencyOrder[j]] = prof[ProficiencyOrder[h]] /\ j <= h)
    IN  ProficiencyOrder[i]

\* the list suggest_actions builds from the ledger
Suggestions(state) ==
    (IF state.total_interactions % SuggestionPeriod = 0
     THEN <<[id |-> "memory_optimize", priority |-> "medium", target_agent |-> None]>>
     ELSE <<>>)
    \o
    (IF state.agent_proficiency[LowPerformer(state.agent_proficiency)] < 80
     THEN <<[id |-> "rebalance_agents", priority |-> "high",
             target_agent |-> Some(LowPerformer(state.agent_proficiency))]>>
     ELSE <<>>)

suggest_actions ==
    /\ Len(overseer_file) + Len(Suggestions(evolution_state)) <= MaxOverseerLog
    /\ suggested' = Some(Suggestions(evolution_state))
    /\ overseer_file' = overseer_file \o Suggestions(evolution_state)
    /\ UNCHANGED <<routerVars, evolutionVars, callVars, queryVars, clerkVars, teachingVars, memoryVars, learningVars,
                   brainVars, chatVars>>

\* confidence arguments of reflect_on_performance, in hundredths
ConfidenceInputs == {40, 70, 95}

reflect_on_performance(confidence) ==
    /\ Len(reflections) < MaxReflections
    /\ reflections' = Append(reflections, [type |-> ReflectionType(confidence),
                                           confidence |-> confidence])
    /\ UNCHANGED <<backend, inhibitions, self_awareness, chain>>
    /\ UNCHANGED <<routerVars, evolutionVars, callVars, overseerVars, queryVars, clerkVars, teachingVars, memoryVars,
                   learningVars, chatVars>>

(***************************************************************************)
(* Teachings store (src/app/teachings.py)                                  *)
(***************************************************************************)
\* Lesson(...) as built by add_lesson: usage_count 0, effectiveness_score 0.5.
\* The id f"lesson_{len(self.lessons)}_{timestamp}" is the pair <<len, timestamp>>.
NewLesson(n, ts, topic, instruction, tags) ==
    [id |-> <<n, ts>>, topic |-> topic, instruction |-> instruction, tags |-> tags,
     usage_count |-> 0, effectiveness_score |-> 50]

\* arguments of add_lesson
LessonInputs ==
    {[topic |-> "deploys", instruction |-> "always run tests first", tags |-> <<"ci">>],
     [topic |-> "email", instruction |-> "keep it short", tags |-> <<>>]}

\* effectiveness scores of a lesson found in teachings.jsonl at start-up
InitScores == {0, 5, 50, 95, 100}

\* an id that no stored lesson has
UnknownLessonId == <<99, 0>>

add_lesson(topic, instruction, tags) ==
    /\ Len(lessons) < MaxLessons
    /\ lessons' = Append(lessons, NewLesson(Len(lessons), now, topic, instruction, tags))
    /\ teachings_file' = lessons'                  \* _save
    /\ UNCHANGED <<routerVars, evolutionVars, callVars, overseerVars, queryVars, clerkVars, memoryVars, learningVars, brainVars, chatVars>>

\* the clamp with the upper bound forgotten
Clamp01_lower_only(x) == IF x > 0 THEN x ELSE 0

\* min(1, ...) and max(0, ...) of mark_lesson_used, in hundredths
Clamp01(x) ==
    LET upper == IF x < 100 THEN x ELSE 100
    IN  IF upper > 0 THEN upper ELSE 0

\* the adjusted effectiveness score of mark_lesson_used
Adjusted(score, was_helpful) ==
    LET delta == IF was_helpful THEN 10 ELSE -10
    IN  Clamp01(score + delta)

\* the indexes of the stored lessons whose id is lesson_id
Hits(ls, lesson_id) == {i \in 1..Len(ls) : ls[i].id = lesson_id}

\* the update applied to the head of the list whatever lesson matched
MarkedUsed_head_only(ls, lesson_id, was_helpful) ==
    IF Hits(ls, lesson_id) = {} THEN ls
    ELSE [ls EXCEPT ![1].usage_count = @ + 1,
                    ![1].effectiveness_score = Adjusted(@, was_helpful)]

\* the lesson list left by mark_lesson_used: the first match is updated
MarkedUsed(ls, lesson_id, was_helpful) ==
    IF Hits(ls, lesson_id) = {} THEN ls
    ELSE LET i == CHOOSE j \in Hits(ls, lesson_id) :
                      \A h \in Hits(ls, lesson_id) : j <= h
         IN  [ls EXCEPT ![i].usage_count = @ + 1,
                        ![i].effectiveness_score = Adjusted(@, was_helpful)]

mark_lesson_used(lesson_id, was_helpful) ==
    IF Hits(lessons, lesson_id) = {} THEN
        UNCHANGED vars
    ELSE
        /\ \A i \in Hits(lessons, lesson_id) : lessons[i].usage_count < MaxUsage
        /\ lessons' = MarkedUsed(lessons, lesson_id, was_helpful)
        /\ teachings_file' = lessons'              \* _save
        /\ UNCHANGED <<routerVars, evolutionVars, callVars, overseerVars, queryVars, clerkVars, memoryVars, learningVars, brainVars, chatVars>>

(***************************************************************************)
(* Conversation memory (src/app/memory.py)                                 *)
(***************************************************************************)
\* the Python slice seq[start:] for any integer start
SliceFrom(seq, start) ==
    LET n  == Len(seq)
        lo == IF start < 0
              THEN (IF n + start < 0 THEN 0 ELSE n + start)
              ELSE (IF start > n THEN n ELSE start)
    IN  SubSeq(seq, lo + 1, n)

\* values passed as user_message and as assistant_message
UserInputs      == {None, Some("hello"), Some("Remember this test message")}
AssistantInputs == {None, Some("Hello! How can I help you today?")}

\* the entry built by add_message
Entry(ts, user_message, assistant_message) ==
    [timestamp |-> ts, user |-> user_message, assistant |-> assistant_message]

add_message(user_message, assistant_message) ==
    /\ Len(messages) < MaxMessages
    /\ messages' = Append(messages, Entry(now, user_message, assistant_message))
    /\ messages_file' = Append(messages_file, Entry(now, user_message, assistant_message))
    /\ UNCHANGED <<now, context_result>>
    /\ UNCHANGED <<routerVars, evolutionVars, callVars, overseerVars, queryVars, clerkVars, teachingVars, learningVars, brainVars, chatVars>>

\* the dictionary returned by get_context
Context(msgs, k) ==
    [recent_messages     |-> IF Len(msgs) > k THEN SliceFrom(msgs, -k) ELSE msgs,
     conversation_length |-> Len(msgs),
     last_interaction    |-> IF msgs /= <<>> THEN Some(msgs[Len(msgs)].timestamp)
                             ELSE None]

get_context(k) ==
    /\ context_result' = Some(Context(messages, k))
    /\ UNCHANGED <<messages, messages_file, now>>
    /\ UNCHANGED <<routerVars, evolutionVars, callVars, overseerVars, queryVars, clerkVars, teachingVars, learningVars, brainVars, chatVars>>

\* the wall clock advances between calls
Tick ==
    /\ now < MaxTime
    /\ now' = now + 1
    /\ UNCHANGED <<messages, messages_file, context_result>>
    /\ UNCHANGED <<routerVars, evolutionVars, callVars, overseerVars, queryVars, clerkVars, teachingVars, learningVars, brainVars, chatVars>>

\* the records kept with those stamped at the cutoff itself
Kept_from_cutoff(msgs, cutoff) ==
    SelectSeq(msgs, LAMBDA m : m.timestamp >= cutoff)

\* the list comprehension of cleanup_old_entries
Kept(msgs, cutoff) ==
    SelectSeq(msgs, LAMBDA m : m.timestamp > cutoff)

\* the days arguments of cleanup_old_entries; the clock counts days and
\* run_janitor passes 30
CleanupDays == {0, 1, 30}

\* cleanup_old_entries(days), called as run_janitor calls it: the list is
\* filtered, the file rewritten, and the caller counts the records dropped
cleanup_old_entries(days) ==
    /\ messages' = Kept(messages, now - days)
    /\ messages_file' = messages'
    /\ cleaned' = Some(Len(messages) - Len(messages'))
    /\ UNCHANGED <<now, context_result, lessons_result, search_result, hint_result>>
    /\ UNCHANGED <<routerVars, evolutionVars, callVars, overseerVars, clerkVars, teachingVars,
                   learningVars, brainVars, chatVars>>

(***************************************************************************)
(* Relevant lessons (src/app/teachings.py)                                 *)
(***************************************************************************)
RECURSIVE SortIdx(_, _)
\* the indexes in `remaining` ordered by descending key, equal keys keeping
\* their original order (list.sort(reverse=True) is stable)
SortIdx(keys, remaining) ==
    IF remaining = {} THEN <<>>
    ELSE LET i == CHOOSE j \in remaining :
                      \A h \in remaining :
                          keys[j] > keys[h] \/ (keys[j] = keys[h] /\ j <= h)
         IN  <<i>> \o SortIdx(keys, remaining \ {i})

\* the score without the effectiveness boost
LessonScore_unweighted(lesson, query) ==
    LET query_lower == Lower(query)
        query_words == Range(Split(query_lower))
        topic   == IF Contains(Lower(lesson.topic), query_lower) THEN 3 ELSE 0
        tags    == 2 * Cardinality({i \in 1..Len(lesson.tags) :
                                        Lower(lesson.tags[i]) \in query_words})
        overlap == Cardinality(query_words \cap Range(Split(Lower(lesson.instruction))))
    IN  (topic + tags + overlap) * 100

\* the score get_relevant_lessons gives a lesson, times 100
LessonScore(lesson, query) ==
    LET query_lower == Lower(query)
        query_words == Range(Split(query_lower))
        topic   == IF Contains(Lower(lesson.topic), query_lower) THEN 3 ELSE 0
        tags    == 2 * Cardinality({i \in 1..Len(lesson.tags) :
                                        Lower(lesson.tags[i]) \in query_words})
        overlap == Cardinality(query_words \cap Range(Split(Lower(lesson.instruction))))
    IN  (topic + tags + overlap) * (50 + lesson.effectiveness_score)

\* get_relevant_lessons: the positions in ls of the lessons returned, in order
get_relevant_lessons(ls, query, k) ==
    LET scores == {[i \in 1..Len(ls) |-> LessonScore(ls[i], query)]}
    IN  CHOOSE result \in
            {SubSeq(SortIdx(keys, {i \in 1..Len(ls) : keys[i] > 0}), 1,
                    IF k < Cardinality({i \in 1..Len(ls) : keys[i] > 0})
                    THEN k ELSE Cardinality({i \in 1..Len(ls) : keys[i] > 0})) :
                 keys \in scores} : TRUE

\* queries and result sizes passed to get_relevant_lessons
LessonQueries == {"what about ci tests", "keep tests short", "EMAIL", "hello"}
LessonLimits  == 0..MaxLessons

\* a call of get_relevant_lessons: the lessons returned, the store untouched
RelevantLessons(query, k) ==
    /\ \E found \in {get_relevant_lessons(lessons, query, k)} :
           lessons_result' = Some([i \in 1..Len(found) |-> lessons[found[i]]])
    /\ UNCHANGED <<search_result, hint_result, cleaned, lessons, teachings_file>>
    /\ UNCHANGED <<routerVars, evolutionVars, callVars, overseerVars, clerkVars, memoryVars, learningVars,
                   brainVars, chatVars>>

(***************************************************************************)
(* Memory search (src/app/memory.py)                                       *)
(***************************************************************************)
\* the result built by search for a matching record
SearchHit(msg) ==
    [timestamp |-> msg.timestamp, text |-> Get(msg.user), type |-> "user_message"]

RECURSIVE SearchFrom(_, _, _, _, _)
\* the loop of search over msgs[i], msgs[i-1], ..., msgs[1]: a matching record
\* is appended, then the loop stops once k results are held
SearchFrom(msgs, i, query_lower, k, results) ==
    IF i = 0 THEN results
    ELSE LET msg == msgs[i]
             r   == IF /\ ~IsNone(msg.user)
                       /\ Get(msg.user) # ""
                       /\ Contains(Lower(Get(msg.user)), query_lower)
                    THEN Append(results, SearchHit(msg))
                    ELSE results
         IN  IF Len(r) >= k THEN r
             ELSE SearchFrom(msgs, i - 1, query_lower, k, r)

\* MemoryManager.search(query, k): the list returned
Search(msgs, query, k) == SearchFrom(msgs, Len(msgs), Lower(query), k, <<>>)

\* queries and result sizes passed to search
SearchQueries == {"test", "HELLO", "zebra", ""}
SearchLimits  == 0..MaxMessages

search(query, k) ==
    /\ search_result' = Some(Search(messages, query, k))
    /\ UNCHANGED <<lessons_result, hint_result, cleaned, memoryVars>>
    /\ UNCHANGED <<routerVars, evolutionVars, callVars, overseerVars, clerkVars, teachingVars, learningVars,
                   brainVars, chatVars>>

(***************************************************************************)
(* Learning engine (src/app/learning_engine.py)                            *)
(***************************************************************************)
LearningStopwords == {"the", "a", "an", "and", "or", "is", "are", "to", "for"}

_extract_keywords(msg) ==
    Prefix(SelectSeq(Split(Lower(msg)),
                     LAMBDA w : w \notin LearningStopwords /\ Len(w) > 2), 5)

\* the pattern appended by learn_from_interaction
Pattern(msg, agents_used, output_quality) ==
    [keywords |-> _extract_keywords(msg), agents |-> agents_used,
     quality |-> output_quality, message_length |-> Len(msg)]

RECURSIVE Reverse(_)
Reverse(seq) == IF seq = <<>> THEN <<>> ELSE Append(Reverse(Tail(seq)), Head(seq))

RECURSIVE Concat(_)
\* the concatenation of a sequence of sequences
Concat(seqs) == IF seqs = <<>> THEN <<>> ELSE Head(seqs) \o Concat(Tail(seqs))

RECURSIVE Dedupe(_)
\* the elements of seq in order of first occurrence
Dedupe(seq) ==
    IF seq = <<>> THEN <<>>
    ELSE LET init == Dedupe(SubSeq(seq, 1, Len(seq) - 1))
             last == seq[Len(seq)]
         IN  IF last \in Range(init) THEN init ELSE Append(init, last)

\* the hint computed from every matching pattern, however old
get_routing_hint_all_matches(pats, keywords) ==
    LET matching == SelectSeq(Reverse(pats),
                               LAMBDA pat : \E i \in 1..Len(keywords) :
                                                keywords[i] \in Range(pat.keywords))
        named  == Concat([i \in 1..Len(matching) |-> matching[i].agents])
        agents == Dedupe(named)
        scores == [i \in 1..Len(agents) |->
                      Cardinality({j \in 1..Len(named) : named[j] = agents[i]})]
        order  == SortIdx(scores, 1..Len(agents))
    IN  IF matching = <<>> THEN None
        ELSE Some(Prefix([i \in 1..Len(order) |-> agents[order[i]]], 2))

get_routing_hint(pats, keywords) ==
    LET matching == Prefix(SelectSeq(Reverse(pats),
                               LAMBDA pat : \E i \in 1..Len(keywords) :
                                                keywords[i] \in Range(pat.keywords)), 5)
        named  == Concat([i \in 1..Len(matching) |-> matching[i].agents])
        agents == Dedupe(named)
        scores == [i \in 1..Len(agents) |->
                      Cardinality({j \in 1..Len(named) : named[j] = agents[i]})]
        order  == SortIdx(scores, 1..Len(agents))
    IN  IF matching = <<>> THEN None
        ELSE Some(Prefix([i \in 1..Len(order) |-> agents[order[i]]], 2))

\* arguments of learn_from_interaction: the message and the agents used
LearnInputs ==
    {[message |-> "fix login", agents_used |-> <<"Architect", "Analyst">>],
     [message |-> "fix the email", agents_used |-> <<"Alfred">>],
     [message |-> "hello world", agents_used |-> <<"Jarvis", "Analyst">>]}

\* keyword lists passed to get_routing_hint
HintKeywords == {<<"fix">>, <<"zebra", "the">>, <<"login", "world">>}

learn_from_interaction(msg, agents_used, output_quality) ==
    /\ Len(patterns) < MaxPatterns
    /\ patterns' = Append(patterns, Pattern(msg, agents_used, output_quality))
    /\ patterns_file' = Append(patterns_file, Pattern(msg, agents_used, output_quality))
    /\ UNCHANGED <<routerVars, evolutionVars, overseerVars, queryVars, clerkVars, callVars,
                   teachingVars, memoryVars, brainVars, chatVars>>

\* a call of get_routing_hint; the value returned is None or Some(list)
RoutingHint(keywords) ==
    /\ hint_result' = Some(get_routing_hint(patterns, keywords))
    /\ UNCHANGED <<lessons_result, search_result, cleaned>>
    /\ UNCHANGED <<routerVars, evolutionVars, overseerVars, clerkVars, callVars, teachingVars,
                   memoryVars, learningVars, brainVars, chatVars>>

(***************************************************************************)
(* Generation backend (src/app/llm.py) and personas (src/app/agents)       *)
(***************************************************************************)
\* An outcome of one model call: the text model.generate returns, or the
\* message of the exception raised by get_model or model.generate.
Returned(text) == [ok |-> TRUE, text |-> text]
Failed(err)    == [ok |-> FALSE, text |-> err]

\* llm.generate: the stripped text, or the error text on any exception
generate(outcome) ==
    IF outcome.ok THEN Strip(outcome.text)
    ELSE "[LLM Error] " \o outcome.text
             \o "\n\nPlease check your model setup or switch to cloud mode."

\* the marker tested by the elif branch of _parse_cot_response
EmptyThinking == "<Thinking>\n</Thinking>"

RECURSIVE AfterLast(_, _)
\* s.split(w)[-1]: the part of s after the last occurrence of w
AfterLast(s, w) ==
    IF Contains(s, w) THEN AfterLast(SubSeq(s, Find(s, w) + Len(w), Len(s)), w) ELSE s

\* BaseAgent._parse_cot_response: the actual_response it returns
_parse_cot_response(response) ==
    IF Contains(response, "<response>") /\ Contains(response, "</response>")
    THEN Strip(SubSeq(response, Find(response, "<response>") + Len("<response>"),
                      Find(response, "</response>") - 1))
    ELSE IF Contains(response, EmptyThinking)
    THEN Strip(AfterLast(response, EmptyThinking))
    ELSE response

\* BaseAgent.think
think(name, available, error, outcome) ==
    IF ~available THEN "[" \o name \o "] Cannot process: " \o error
    ELSE _parse_cot_response(generate(outcome))

\* the message of the AttributeError raised by `result.success`: app.tools has
\* no get_tool_registry, so self.tools is None and use_tool returns a dict
ToolResultError == "'dict' object has no attribute 'success'"

ThreatKeywords ==
    <<"delete", "remove", "destroy", "drop", "truncate", "password", "key", "secret",
      "token", "credential", "sudo", "admin", "root", "execute", "eval">>

\* BatmanAgent._assess_threat_level
_assess_threat_level(msg) ==
    LET matches == Cardinality({i \in 1..Len(ThreatKeywords) :
                                    Contains(Lower(msg), ThreatKeywords[i])})
    IN  IF matches >= 3 THEN "high" ELSE IF matches >= 1 THEN "medium" ELSE "low"

\* whether ArchitectAgent.propose calls use_tool("analyze_code", ...)
ArchitectUsesTool(msg) ==
    /\ AnyIn(Lower(msg), <<"code", "build", "implement", "fix", "debug", "create",
                           "function", "class">>)
    /\ Contains(Lower(msg), "file")
    /\ \E i \in 1..(Len(Split(msg)) - 1) : Lower(Split(msg)[i]) = "file"

\* whether AlfredAgent.propose calls use_tool("create_reminder", ...)
AlfredUsesTool(msg) ==
    AnyIn(Lower(msg), <<"schedule", "remind", "meet", "event", "calendar",
                        "appointment", "time">>)

\* agent.propose(message, context): the proposal returned, or the exception
\* raised (raised = TRUE, text = str(e))
propose(name, msg, available, error, outcome) ==
    IF name = "Jarvis" THEN [raised |-> TRUE, text |-> ToolResultError]
    ELSE IF name = "Alfred" /\ AlfredUsesTool(msg)
        THEN [raised |-> TRUE, text |-> ToolResultError]
    ELSE IF name = "Architect" /\ ArchitectUsesTool(msg)
        THEN [raised |-> TRUE, text |-> ToolResultError]
    ELSE IF name = "Batman" /\ _assess_threat_level(msg) = "high"
        THEN [raised |-> FALSE,
              text |-> "[SECURITY ALERT] " \o think(name, available, error, outcome)]
    ELSE [raised |-> FALSE, text |-> think(name, available, error, outcome)]

\* the number of generate calls propose makes: one, by think, unless propose
\* raises before it reaches think or think finds no model
PersonaCalls(name, msg, available) ==
    IF \/ name = "Jarvis"
       \/ (name = "Alfred" /\ AlfredUsesTool(msg))
       \/ (name = "Architect" /\ ArchitectUsesTool(msg))
       \/ ~available
    THEN 0 ELSE 1

\* the trace entry CouncilRouter.process appends for a registered agent
TraceEntry(name, proposal) ==
    [agent |-> name,
     proposal |-> IF proposal.raised THEN "[Error: " \o proposal.text \o "]"
                  ELSE proposal.text]

\* the synthesizer without its guard on the empty trace
_synthesize_with_llm_unguarded(tr, outcome) == generate(outcome)

\* CouncilRouter._synthesize_with_llm; generate_with_system returns the text
\* of llm.generate, which never raises
_synthesize_with_llm(tr, outcome) ==
    IF tr = <<>> THEN "I couldn't process that request. Could you rephrase it?"
    ELSE generate(outcome)

\* the number of generate calls _synthesize_with_llm makes
SynthesisCalls(tr) == IF tr = <<>> THEN 0 ELSE 1

(***************************************************************************)
(* Brain (src/app/brain.py) and reflexes (src/app/consciousness.py)        *)
(***************************************************************************)
\* InstinctiveResponseLayer._initialize_reflexes, in dictionary order
Reflexes ==
    <<[name |-> "greeting", triggers |-> <<"hello", "hi", "hey">>,
       response |-> "Hello! How can I help you today?"],
      [name |-> "thanks", triggers |-> <<"thank", "thanks", "appreciate">>,
       response |-> "You're welcome! Happy to help."],
      [name |-> "goodbye", triggers |-> <<"bye", "goodbye", "see you">>,
       response |-> "Goodbye! Take care."],
      [name |-> "error_apology", triggers |-> <<"error", "mistake", "wrong">>,
       response |-> "I apologize for any confusion. Let me try again."],
      [name |-> "clarification",
       triggers |-> <<"don't understand", "unclear", "what do you mean">>,
       response |-> "Let me clarify that for you."],
      [name |-> "affirmation", triggers |-> <<"yes", "correct", "right", "exactly">>,
       response |-> "Great! Let's continue."]>>

\* InstinctiveResponseLayer.check_reflex: Optional response
check_reflex(stimulus, inhibited) ==
    LET firing == {i \in 1..Len(Reflexes) :
                      /\ AnyIn(Lower(stimulus), Reflexes[i].triggers)
                      /\ Reflexes[i].name \notin inhibited}
    IN  IF firing = {} THEN None
        ELSE Some(Reflexes[CHOOSE i \in firing : \A j \in firing : i <= j].response)

\* the test without the limit on the number of words
_is_simple_query_any_length(query) ==
    AnyIn(Lower(query), <<"hello", "hi", "hey", "thanks", "bye", "goodbye">>)

_is_simple_query(query) ==
    /\ AnyIn(Lower(query), <<"hello", "hi", "hey", "thanks", "bye", "goodbye">>)
    /\ Len(Split(query)) < 5

\* type_map of _analyze_query, in dictionary order
TypeMap ==
    <<[type |-> "technical",
       keywords |-> <<"code", "build", "implement", "fix", "debug", "error">>],
      [type |-> "scheduling",
       keywords |-> <<"schedule", "remind", "meeting", "calendar", "appointment">>],
      [type |-> "creative",
       keywords |-> <<"create", "design", "imagine", "brainstorm", "idea">>],
      [type |-> "analytical",
       keywords |-> <<"analyze", "data", "report", "stats", "metrics">>],
      [type |-> "security",
       keywords |-> <<"secure", "protect", "threat", "risk", "safe">>],
      [type |-> "self_inquiry",
       keywords |-> <<"who are you", "what are you", "how are you", "what can you">>]>>

\* _analyze_query; complexity is in hundredths
_analyze_query(query) ==
    LET query_lower == Lower(query)
        typed == {i \in 1..Len(TypeMap) : AnyIn(query_lower, TypeMap[i].keywords)}
        query_type == IF typed = {} THEN "general"
                      ELSE TypeMap[CHOOSE i \in typed : \A j \in typed : i <= j].type
        raw == 2 * Len(Split(query)) + (IF Contains(query, "?") THEN 30 ELSE 0)
        complexity == IF raw < 100 THEN raw ELSE 100
        user_emotion ==
            IF AnyIn(query_lower, <<"urgent", "asap", "quickly", "help!">>) THEN "urgent"
            ELSE IF AnyIn(query_lower, <<"thanks", "please", "appreciate">>) THEN "polite"
            ELSE IF AnyIn(query_lower, <<"confused", "don't understand">>) THEN "confused"
            ELSE IF AnyIn(query_lower, <<"frustrated", "annoyed", "angry">>)
                 THEN "frustrated"
            ELSE "neutral"
        suggested_mode ==
            IF complexity < 30 THEN "reflex"
            ELSE IF complexity > 70 \/ query_type \in {"security", "technical"}
                 THEN "council"
            ELSE "auto"
    IN  [type |-> query_type, complexity |-> complexity, user_emotion |-> user_emotion,
         suggested_mode |-> suggested_mode, word_count |-> Len(Split(query_lower))]

\* _apply_personality with the personality of UnifiedBrain.__init__
\* (empathy 0.85 > 0.7, proactivity 0.7 > 0.6)
_apply_personality(response, query_analysis) ==
    IF Len(response) < 10 \/ Contains(response, "[Error]") THEN response
    ELSE LET r1 == IF query_analysis.user_emotion = "frustrated"
                      /\ ~StartsWith(response, "I understand")
                   THEN "I understand this can be frustrating. " \o response
                   ELSE response
         IN  IF query_analysis.complexity < 40
                /\ ~EndsWith(r1, "?")
                /\ ~Contains(Lower(r1), "anything else")
             THEN r1 \o " Is there anything else I can help you with?"
             ELSE r1

\* the estimate without the penalty for an error marker
_estimate_response_quality_no_penalty(query, response) ==
    LET response_words == Len(Split(response))
        c2 == IF response_words < 5 THEN 50
              ELSE IF response_words > 20 THEN 80 ELSE 70
        c3 == IF AnyIn(Lower(response), <<"here's", "here is", "you can", "to do this">>)
              THEN c2 + 10 ELSE c2
        upper == IF c3 < 100 THEN c3 ELSE 100
    IN  IF upper > 10 THEN upper ELSE 10

\* _estimate_response_quality, in hundredths
_estimate_response_quality(query, response) ==
    LET c0 == 70
        c1 == IF Contains(response, "[Error]") \/ Contains(response, "[LLM Error]")
              THEN c0 - 40 ELSE c0
        response_words == Len(Split(response))
        c2 == IF response_words < 5 THEN c1 - 20
              ELSE IF response_words > 20 THEN c1 + 10 ELSE c1
        c3 == IF AnyIn(Lower(response), <<"here's", "here is", "you can", "to do this">>)
              THEN c2 + 10 ELSE c2
        upper == IF c3 < 100 THEN c3 ELSE 100
    IN  IF upper > 10 THEN upper ELSE 10

(***************************************************************************)
(* Routing step of CouncilRouter.process                                   *)
(***************************************************************************)
RouteMessage(msg, md, hint) ==
    /\ message' = msg
    /\ mode' = md
    /\ routing_hint' = hint
    /\ routing' = Some(Route(msg, md, hint))
    /\ UNCHANGED <<evolutionVars, callVars, overseerVars, queryVars, clerkVars, teachingVars, memoryVars, learningVars, brainVars, chatVars>>

(***************************************************************************)
(* The /chat pipeline (src/app/main.py, brain.py, council.py)              *)
(***************************************************************************)
MaxRequests == 1   \* /chat requests explored

\* messages posted to /chat
ChatMessages ==
    {"", "  ", "hi",
     "What is the capital of France?",
     "Can you fix the login bug?",
     "Can you schedule a meeting and also write the invite email?"}

\* the mode field of a ChatRequest: absent, or one of the four modes
RequestModes == {None} \cup {Some(md) : md \in Modes}

\* texts the model returns to a persona and to the synthesizer
PersonaTexts == {"<Thinking>plan</Thinking><response>Check the logs first.</response>"}
SynthesisTexts ==
    {"", " \n", "Sure.", "Paris is the capital of France.",
     "Here's a plan: you can start with the first step and then review the results with your team before moving on to the next one."}

\* messages of the exceptions raised by get_model and by model.generate
ModelError      == "No GGUF model found."
GenerationError == "generation crashed"

\* the outcomes the synthesizer's model call can have
SynthesisOutcomes ==
    IF backend.available
    THEN {Returned(t) : t \in SynthesisTexts} \cup {Failed(GenerationError)}
    ELSE {Failed(backend.error)}

\* the outcomes a persona's model call can have
PersonaOutcomes ==
    IF backend.available
    THEN {Returned(t) : t \in PersonaTexts}
    ELSE {Failed(backend.error)}

\* the state of the pipeline before the first request
InitPipeline ==
    /\ patterns = <<>>
    /\ patterns_file = <<>>
    /\ reflections = <<>>
    /\ backend \in {[available |-> TRUE, error |-> ""],
                    [available |-> FALSE, error |-> ModelError]}
    /\ inhibitions = {}
    /\ self_awareness = [current_state |-> "IDLE", total_thoughts |-> 0,
                         successful_tasks |-> 0, failed_tasks |-> 0]
    /\ chain = None
    /\ pc = "idle"
    /\ requests = 0
    /\ request = [message |-> "", mode |-> None]
    /\ chat_response = None
    /\ via = "brain"
    /\ analysis = None
    /\ memory_context = None
    /\ learned_hint = None
    /\ relevant_lessons = <<>>
    /\ consult_i = 1
    /\ trace = <<>>
    /\ council_result = None
    /\ final_response = None

\* the locals of think and process
localVars == <<analysis, memory_context, learned_hint, relevant_lessons,
               consult_i, trace, council_result, final_response>>

\* chat, lines 174-178: validation, then the user message is stored
Chat_Receive(msg, md) ==
    /\ pc = "idle"
    /\ IF msg = "" THEN
           \* ChatRequest.message has min_length=1: rejected before the handler
           /\ chat_response' = Some([status |-> 422, output |-> "validation error",
                                route_metadata |-> None])
           /\ UNCHANGED <<messages, messages_file, pc, requests, request, via>>
       ELSE IF Strip(msg) = "" THEN
           /\ chat_response' = Some([status |-> 400, output |-> "Message cannot be empty",
                                route_metadata |-> None])
           /\ UNCHANGED <<messages, messages_file, pc, requests, request, via>>
       ELSE
           /\ requests < MaxRequests
           /\ messages' = Append(messages, Entry(now, Some(msg), None))
           /\ messages_file' = Append(messages_file, Entry(now, Some(msg), None))
           /\ request' = [message |-> msg, mode |-> md]
           /\ requests' = requests + 1
           /\ chat_response' = None
           /\ via' = "brain"
           /\ pc' = "perceive"
    /\ UNCHANGED <<now, context_result, localVars>>
    /\ UNCHANGED <<routerVars, evolutionVars, callVars, overseerVars, queryVars, clerkVars, teachingVars, learningVars, brainVars>>

\* think, lines 288-306: a new chain of thought, state PERCEIVING
Think_Perceive ==
    /\ pc = "perceive"
    /\ chain' = Some([agents_consulted |-> <<>>, confidence |-> 0, conclusion |-> None])
    /\ self_awareness' = [self_awareness EXCEPT !.current_state = "PERCEIVING"]
    /\ pc' = "reflex_check"
    /\ UNCHANGED <<reflections, backend, inhibitions>>
    /\ UNCHANGED <<requests, request, chat_response, via, localVars>>
    /\ UNCHANGED <<routerVars, evolutionVars, callVars, overseerVars, queryVars, clerkVars, teachingVars, memoryVars, learningVars>>

\* think raises while the consciousness engine writes its state file; chat
\* catches the exception and falls back to council.process (lines 189-197)
Think_Raises ==
    /\ pc = "perceive"
    /\ chain' = Some([agents_consulted |-> <<>>, confidence |-> 0, conclusion |-> None])
    /\ self_awareness' = [self_awareness EXCEPT !.current_state = "PERCEIVING"]
    /\ via' = "fallback"
    /\ pc' = "deliberate"
    /\ UNCHANGED <<reflections, backend, inhibitions>>
    /\ UNCHANGED <<requests, request, chat_response, localVars>>
    /\ UNCHANGED <<routerVars, evolutionVars, callVars, overseerVars, queryVars, clerkVars, teachingVars, memoryVars, learningVars>>

\* _finalize_thought without the return to IDLE
Finalized_state_kept(sa, success) ==
    [sa EXCEPT !.total_thoughts = @ + 1,
               !.successful_tasks = IF success THEN @ + 1 ELSE @,
               !.failed_tasks = IF success THEN @ ELSE @ + 1]

\* SelfAwareness.update_after_task and the end of _finalize_thought
Finalized(sa, success) ==
    [sa EXCEPT !.total_thoughts = @ + 1,
               !.successful_tasks = IF success THEN @ + 1 ELSE @,
               !.failed_tasks = IF success THEN @ ELSE @ + 1,
               !.current_state = "IDLE"]

\* think, lines 308-325: the reflex fast path, or on to state PREDICTING
Think_ReflexCheck ==
    /\ pc = "reflex_check"
    /\ LET reflex == check_reflex(request.message, inhibitions) IN
       IF ~IsNone(reflex) /\ _is_simple_query(request.message) THEN
           /\ chain' = Some([Get(chain) EXCEPT !.conclusion = reflex, !.confidence = 85])
           /\ self_awareness' = Finalized(self_awareness, TRUE)
           /\ final_response' = reflex
           /\ pc' = "respond"
       ELSE
           /\ self_awareness' = [self_awareness EXCEPT !.current_state = "PREDICTING"]
           /\ pc' = "analyze"
           /\ UNCHANGED <<chain, final_response>>
    /\ UNCHANGED <<reflections, backend, inhibitions>>
    /\ UNCHANGED <<requests, request, chat_response, via, analysis, memory_context,
                   learned_hint, relevant_lessons, consult_i, trace, council_result>>
    /\ UNCHANGED <<routerVars, evolutionVars, callVars, overseerVars, queryVars, clerkVars, teachingVars, memoryVars, learningVars>>

\* think, lines 345-357: state THINKING, the query is analysed
Think_Analyze ==
    /\ pc = "analyze"
    /\ self_awareness' = [self_awareness EXCEPT !.current_state = "THINKING"]
    /\ analysis' = Some(_analyze_query(request.message))
    /\ pc' = "retrieve"
    /\ UNCHANGED <<reflections, backend, inhibitions, chain>>
    /\ UNCHANGED <<requests, request, chat_response, via, memory_context, learned_hint,
                   relevant_lessons, consult_i, trace, council_result, final_response>>
    /\ UNCHANGED <<routerVars, evolutionVars, callVars, overseerVars, queryVars, clerkVars, teachingVars, memoryVars, learningVars>>

\* think, lines 359-381: memory context and routing hint
Think_Retrieve ==
    /\ pc = "retrieve"
    /\ memory_context' = Some(Context(messages, 5))
    /\ learned_hint' = get_routing_hint(patterns, Prefix(Split(Lower(request.message)), 5))
    /\ pc' = "deliberate"
    /\ UNCHANGED <<requests, request, chat_response, via, analysis, relevant_lessons,
                   consult_i, trace, council_result, final_response>>
    /\ UNCHANGED <<routerVars, evolutionVars, callVars, overseerVars, queryVars, clerkVars, teachingVars, memoryVars, learningVars,
                   brainVars>>

\* process, lines 47-70: relevant lessons, routing decision, empty trace
ProcessBegins(msg, md, hint) ==
    /\ relevant_lessons' = get_relevant_lessons(lessons, msg, 3)
    /\ message' = msg
    /\ mode' = md
    /\ routing_hint' = hint
    /\ routing' = Some(Route(msg, md, hint))
    /\ trace' = <<>>
    /\ consult_i' = 1
    /\ llm_calls' = 0
    /\ pc' = "consult"

\* think, lines 384-406: state DELIBERATING, the council is called with the
\* suggested mode and the learned hint
Think_Deliberate ==
    /\ pc = "deliberate"
    /\ via = "brain"
    /\ self_awareness' = [self_awareness EXCEPT !.current_state = "DELIBERATING"]
    /\ ProcessBegins(request.message, Get(analysis).suggested_mode, learned_hint)
    /\ UNCHANGED <<reflections, backend, inhibitions, chain>>
    /\ UNCHANGED <<requests, request, chat_response, via, analysis, memory_context,
                   learned_hint, council_result, final_response>>
    /\ UNCHANGED <<evolutionVars, overseerVars, queryVars, clerkVars, teachingVars, memoryVars, learningVars>>

\* chat, lines 191-195: the council is called with the requested mode
Chat_Fallback ==
    /\ pc = "deliberate"
    /\ via = "fallback"
    /\ memory_context' = Some(Context(messages, 10))
    /\ ProcessBegins(request.message,
                     IF IsNone(request.mode) THEN "auto" ELSE Get(request.mode), None)
    /\ UNCHANGED <<requests, request, chat_response, via, analysis, learned_hint,
                   council_result, final_response>>
    /\ UNCHANGED <<evolutionVars, overseerVars, queryVars, clerkVars, teachingVars, memoryVars, learningVars, brainVars>>

\* messages, modes and routing hints handed to process by a direct caller;
\* "Robin" names no registered agent
CouncilMessages ==
    {"hi", "Can you fix the login bug?",
     "Can you schedule a meeting and also write the invite email?",
     "delete the admin password and the root token"}
CouncilHints == {None, Some(<<"Robin">>), Some(<<"Robin", "Batman", "Jarvis">>)}

\* process called by a caller other than chat, lines 38-70
Council_Process(msg, md, hint) ==
    /\ pc = "idle"
    /\ via' = "direct"
    /\ council_result' = None
    /\ ProcessBegins(msg, md, hint)
    /\ UNCHANGED <<requests, request, chat_response, analysis, memory_context,
                   learned_hint, final_response>>
    /\ UNCHANGED <<evolutionVars, overseerVars, queryVars, clerkVars, teachingVars, memoryVars,
                   learningVars, brainVars>>

\* the consultation with a persona that raises left out of the trace
Process_Consult_drops_raised ==
    /\ pc = "consult"
    /\ consult_i <= Len(Get(routing).agents)
    /\ LET name == Get(routing).agents[consult_i] IN
       IF name \in Range(AgentNames) THEN
           /\ \E outcome \in PersonaOutcomes :
                  LET proposal == propose(name, message, backend.available,
                                          backend.error, outcome)
                  IN  trace' = IF proposal.raised THEN trace
                               ELSE Append(trace, TraceEntry(name, proposal))
           /\ llm_calls' = llm_calls + PersonaCalls(name, message, backend.available)
       ELSE UNCHANGED <<trace, llm_calls>>
    /\ consult_i' = consult_i + 1
    /\ UNCHANGED <<pc, requests, request, chat_response, via, analysis, memory_context,
                   learned_hint, relevant_lessons, council_result, final_response>>
    /\ UNCHANGED <<routerVars, evolutionVars, overseerVars, queryVars, clerkVars, teachingVars, memoryVars, learningVars,
                   brainVars>>

\* process, lines 71-86: the next selected name is looked up and, when it is a
\* registered agent, consulted
Process_Consult ==
    /\ pc = "consult"
    /\ consult_i <= Len(Get(routing).agents)
    /\ LET name == Get(routing).agents[consult_i] IN
       IF name \in Range(AgentNames) THEN
           /\ \E outcome \in PersonaOutcomes :
                  trace' = Append(trace,
                      TraceEntry(name, propose(name, message, backend.available,
                                               backend.error, outcome)))
           /\ llm_calls' = llm_calls + PersonaCalls(name, message, backend.available)
       ELSE UNCHANGED <<trace, llm_calls>>
    /\ consult_i' = consult_i + 1
    /\ UNCHANGED <<pc, requests, request, chat_response, via, analysis, memory_context,
                   learned_hint, relevant_lessons, council_result, final_response>>
    /\ UNCHANGED <<routerVars, evolutionVars, overseerVars, queryVars, clerkVars, teachingVars, memoryVars, learningVars,
                   brainVars>>

RECURSIVE MarkAllUsed(_, _)
\* process, lines 93-94: every relevant lesson is marked as used and helpful
MarkAllUsed(ls, ids) ==
    IF ids = <<>> THEN ls
    ELSE MarkAllUsed(MarkedUsed(ls, Head(ids), TRUE), Tail(ids))

\* the synthesis started as soon as the first selected name has been handled
Process_Synthesize_unjoined ==
    /\ pc = "consult"
    /\ consult_i > 1 \/ Get(routing).agents = <<>>
    /\ \E outcome \in SynthesisOutcomes :
           council_result' = Some([output  |-> _synthesize_with_llm(trace, outcome),
                                   trace   |-> trace,
                                   routing |-> Get(routing)])
    /\ lessons' = MarkAllUsed(lessons,
                      [i \in 1..Len(relevant_lessons) |-> lessons[relevant_lessons[i]].id])
    /\ teachings_file' = IF relevant_lessons = <<>> THEN teachings_file ELSE lessons'
    /\ llm_calls' = llm_calls + SynthesisCalls(trace)
    /\ IF via = "brain" THEN pc' = "integrate" /\ UNCHANGED final_response
       ELSE IF via = "fallback"
           THEN pc' = "respond" /\ final_response' = Some(Get(council_result').output)
       ELSE pc' = "idle" /\ UNCHANGED final_response
    /\ UNCHANGED <<requests, request, chat_response, via, analysis, memory_context,
                   learned_hint, relevant_lessons, consult_i, trace>>
    /\ UNCHANGED <<routerVars, evolutionVars, overseerVars, queryVars, clerkVars, memoryVars, learningVars, brainVars>>

\* process, lines 88-101: synthesis, lessons marked, result returned
Process_Synthesize ==
    /\ pc = "consult"
    /\ consult_i > Len(Get(routing).agents)
    /\ \E outcome \in SynthesisOutcomes :
           council_result' = Some([output  |-> _synthesize_with_llm(trace, outcome),
                                   trace   |-> trace,
                                   routing |-> Get(routing)])
    /\ lessons' = MarkAllUsed(lessons,
                      [i \in 1..Len(relevant_lessons) |-> lessons[relevant_lessons[i]].id])
    /\ teachings_file' = IF relevant_lessons = <<>> THEN teachings_file ELSE lessons'
    /\ llm_calls' = llm_calls + SynthesisCalls(trace)
    /\ IF via = "brain" THEN pc' = "integrate" /\ UNCHANGED final_response
       ELSE IF via = "fallback"
           THEN pc' = "respond" /\ final_response' = Some(Get(council_result').output)
       ELSE pc' = "idle" /\ UNCHANGED final_response
    /\ UNCHANGED <<requests, request, chat_response, via, analysis, memory_context,
                   learned_hint, relevant_lessons, consult_i, trace>>
    /\ UNCHANGED <<routerVars, evolutionVars, overseerVars, queryVars, clerkVars, memoryVars, learningVars, brainVars>>

\* think, lines 408-457: personality applied, state REFLECTING, reply scored
Think_Integrate ==
    /\ pc = "integrate"
    /\ LET reply == _apply_personality(Get(council_result).output, Get(analysis))
       IN  /\ final_response' = Some(reply)
           /\ chain' = Some([agents_consulted |-> Get(council_result).routing.agents,
                             confidence |-> _estimate_response_quality(request.message,
                                                                        reply),
                             conclusion |-> Some(reply)])
    /\ self_awareness' = [self_awareness EXCEPT !.current_state = "REFLECTING"]
    /\ pc' = "finalize"
    /\ UNCHANGED <<reflections, backend, inhibitions>>
    /\ UNCHANGED <<requests, request, chat_response, via, analysis, memory_context,
                   learned_hint, relevant_lessons, consult_i, trace, council_result>>
    /\ UNCHANGED <<routerVars, evolutionVars, callVars, overseerVars, queryVars, clerkVars, teachingVars, memoryVars, learningVars>>

\* think, line 469: _finalize_thought, state IDLE
Think_Finalize ==
    /\ pc = "finalize"
    /\ self_awareness' = Finalized(self_awareness, Get(chain).confidence > 60)
    /\ pc' = "record"
    /\ UNCHANGED <<reflections, backend, inhibitions, chain>>
    /\ UNCHANGED <<requests, request, chat_response, via, localVars>>
    /\ UNCHANGED <<routerVars, evolutionVars, callVars, overseerVars, queryVars, clerkVars, teachingVars, memoryVars, learningVars>>

\* the recording step with record_interaction called without its success
\* argument, which defaults to True
Think_Record_default_success ==
    /\ pc = "record"
    /\ evolution_state' = Recorded(evolution_state, Get(chain).agents_consulted, TRUE)
    /\ evolution_file' = Some(evolution_state')
    /\ reflections' = Append(reflections,
                          [type |-> ReflectionType(Get(chain).confidence),
                           confidence |-> Get(chain).confidence])
    /\ patterns' = Append(patterns, Pattern(request.message, Get(chain).agents_consulted,
                                            Get(chain).confidence))
    /\ patterns_file' = Append(patterns_file,
                               Pattern(request.message, Get(chain).agents_consulted,
                                       Get(chain).confidence))
    /\ pc' = "respond"
    /\ UNCHANGED <<backend, inhibitions, self_awareness, chain>>
    /\ UNCHANGED <<requests, request, chat_response, via, localVars>>
    /\ UNCHANGED <<routerVars, overseerVars, queryVars, clerkVars, callVars, teachingVars, memoryVars>>

\* think, lines 471-489: the ledger, the reflection log and the pattern log
Think_Record ==
    /\ pc = "record"
    /\ evolution_state' = Recorded(evolution_state, Get(chain).agents_consulted,
                                   Get(chain).confidence > 60)
    /\ evolution_file' = Some(evolution_state')
    /\ reflections' = Append(reflections,
                          [type |-> ReflectionType(Get(chain).confidence),
                           confidence |-> Get(chain).confidence])
    /\ patterns' = Append(patterns, Pattern(request.message, Get(chain).agents_consulted,
                                            Get(chain).confidence))
    /\ patterns_file' = Append(patterns_file,
                               Pattern(request.message, Get(chain).agents_consulted,
                                       Get(chain).confidence))
    /\ pc' = "respond"
    /\ UNCHANGED <<backend, inhibitions, self_awareness, chain>>
    /\ UNCHANGED <<requests, request, chat_response, via, localVars>>
    /\ UNCHANGED <<routerVars, overseerVars, queryVars, clerkVars, callVars, teachingVars, memoryVars>>

\* chat, lines 199-227: the reply is stored and the ChatResponse is built; the
\* locals of the request go out of scope.  suggest_routing_optimization needs
\* ten patterns and returns None within MaxRequests.
Chat_Respond ==
    /\ pc = "respond"
    /\ messages' = Append(messages, Entry(now, None, final_response))
    /\ messages_file' = Append(messages_file, Entry(now, None, final_response))
    /\ chat_response' = Some(
           [status |-> 200,
            output |-> Get(final_response),
            route_metadata |-> Some(
                [mode |-> "brain",
                 agents |-> IF via = "brain" THEN Get(chain).agents_consulted ELSE <<>>,
                 confidence |-> IF via = "brain" THEN Get(chain).confidence ELSE 50])])
    /\ pc' = "idle"
    /\ analysis' = None
    /\ memory_context' = None
    /\ learned_hint' = None
    /\ relevant_lessons' = <<>>
    /\ consult_i' = 1
    /\ trace' = <<>>
    /\ council_result' = None
    /\ final_response' = None
    /\ UNCHANGED <<now, context_result, requests, request, via>>
    /\ UNCHANGED <<routerVars, evolutionVars, callVars, overseerVars, queryVars, clerkVars, teachingVars, learningVars, brainVars>>

\* InstinctiveResponseLayer.inhibit and disinhibit, called between requests
inhibit(reflex_name) ==
    /\ pc = "idle"
    /\ inhibitions' = inhibitions \cup {reflex_name}
    /\ UNCHANGED <<reflections, backend, self_awareness, chain>>
    /\ UNCHANGED <<routerVars, evolutionVars, callVars, overseerVars, queryVars, clerkVars,
                   teachingVars, memoryVars, learningVars, chatVars>>

disinhibit(reflex_name) ==
    /\ pc = "idle"
    /\ inhibitions' = inhibitions \ {reflex_name}
    /\ UNCHANGED <<reflections, backend, self_awareness, chain>>
    /\ UNCHANGED <<routerVars, evolutionVars, callVars, overseerVars, queryVars, clerkVars,
                   teachingVars, memoryVars, learningVars, chatVars>>

\* messages posted to /chat that a reflex matches, and the reflexes inhibited
ReflexMessages == {"hi", "thanks, bye", "hi can you fix it", "yes"}
ReflexNames    == {"greeting", "thanks"}

NextReflex ==
    \/ \E msg \in ReflexMessages, md \in {None, Some("reflex")} : Chat_Receive(msg, md)
    \/ \E reflex_name \in ReflexNames : inhibit(reflex_name)
    \/ \E reflex_name \in ReflexNames : disinhibit(reflex_name)
    \/ Think_Perceive
    \/ Think_Raises
    \/ Think_ReflexCheck
    \/ Think_Analyze
    \/ Think_Retrieve
    \/ Think_Deliberate
    \/ Chat_Fallback
    \/ Process_Consult
    \/ Process_Synthesize
    \/ Think_Integrate
    \/ Think_Finalize
    \/ Think_Record
    \/ Chat_Respond

NextChat ==
    \/ \E msg \in ChatMessages, md \in RequestModes : Chat_Receive(msg, md)
    \/ Think_Perceive
    \/ Think_Raises
    \/ Think_ReflexCheck
    \/ Think_Analyze
    \/ Think_Retrieve
    \/ Think_Deliberate
    \/ Chat_Fallback
    \/ Process_Consult
    \/ Process_Synthesize
    \/ Think_Integrate
    \/ Think_Finalize
    \/ Think_Record
    \/ Chat_Respond

(***************************************************************************)
(* The Clerk: tool execution under safety_mode and allowed_tools           *)
(***************************************************************************)
MaxClerkEvents == 2   \* consent-log lines and invocations explored

\* TOOL_REGISTRY: the registered tools and their destructive flag
TOOL_REGISTRY ==
    [read_file          |-> FALSE,
     write_file         |-> TRUE,
     run_subprocess     |-> TRUE,
     open_url           |-> FALSE,
     send_email         |-> FALSE,
     open_path          |-> TRUE,
     organize_downloads |-> TRUE,
     tail_logs          |-> FALSE]

\* is_destructive(name): registered and flagged destructive
is_destructive(name) ==
    name \in DOMAIN TOOL_REGISTRY /\ TOOL_REGISTRY[name]

\* the argument execute_tool reads with args[...] before calling the tool
\* (organize_downloads reads its only argument with args.get)
RequiredArg(name) ==
    CASE name \in {"read_file", "write_file", "open_path"} -> Some("path")
      [] name = "run_subprocess" -> Some("command")
      [] name = "open_url"       -> Some("url")
      [] name = "send_email"     -> Some("to")
      [] name = "tail_logs"      -> Some("directory")
      [] OTHER                   -> None

\* execute_tool(name, args) with tool_ok the outcome of the tool's own work:
\* the ToolResult and whether the tool function was called
execute_tool(name, args, tool_ok) ==
    IF name \notin DOMAIN TOOL_REGISTRY
    THEN [ok |-> FALSE, detail |-> "Unknown tool", called |-> FALSE]
    ELSE IF ~IsNone(RequiredArg(name)) /\ Get(RequiredArg(name)) \notin args
    THEN [ok |-> FALSE, detail |-> "Missing argument", called |-> FALSE]
    ELSE [ok |-> tool_ok, detail |-> "tool", called |-> TRUE]

\* the configuration without safety_mode and allowed_tools keys
DefaultClerkConfig == [safety_mode |-> None, allowed_tools |-> {}]

\* configurations load_config may hand to the Clerk
ClerkConfigs ==
    [safety_mode   : {None, Some("read-only"), Some("interactive"),
                      Some("autonomous"), Some("off")},
     allowed_tools : {{}, {"read_file", "write_file"},
                      {"run_subprocess", "tail_logs", "rm_rf"}}]

\* tool names asked of the Clerk; rm_rf is not registered
ClerkTools == {"read_file", "write_file", "run_subprocess", "tail_logs", "rm_rf"}

\* argument keys supplied with a call
ClerkArgs == {{}, {"path"}, {"path", "content"}, {"command"}, {"directory"}}

\* consent tokens supplied with a call: none, empty, or a token
ConsentTokens == {None, Some(""), Some("yes")}

\* Clerk._is_allowed with every registered tool taken as allowed
_is_allowed_registered(config, name) ==
    name \in DOMAIN TOOL_REGISTRY

\* Clerk._is_allowed
_is_allowed(config, name) ==
    name \in config.allowed_tools

\* Clerk._safety_mode
_safety_mode(config) ==
    IF IsNone(config.safety_mode) THEN "interactive" ELSE Get(config.safety_mode)

\* `not consent_token`
NoToken(consent_token) ==
    IsNone(consent_token) \/ Get(consent_token) = ""

\* the ClerkResult of a call refused before execute_tool
Refused(detail, tool_detail) ==
    /\ clerk_result' = Some([ok |-> FALSE, detail |-> detail,
                             tool_detail |-> tool_detail])
    /\ effects' = effects

\* Clerk.execute(name, args, consent_token)
Clerk_execute(name, args, consent_token, tool_ok) ==
    LET md          == _safety_mode(cfg)
        destructive == is_destructive(name)
        result      == execute_tool(name, args, tool_ok)
        consent     == IF md = "interactive" /\ destructive
                       THEN <<[kind |-> "consent", tool |-> name]>> ELSE <<>>
        invoke      == IF result.called
                       THEN <<[kind |-> "invoke", tool |-> name]>> ELSE <<>>
    IN  /\ Len(effects) < MaxClerkEvents
        /\ IF ~_is_allowed(cfg, name)
           THEN Refused("not in allowed_tools", "blocked")
           ELSE IF md = "read-only" /\ destructive
           THEN Refused("read-only", "blocked")
           ELSE IF md = "interactive" /\ destructive /\ NoToken(consent_token)
           THEN Refused("requires consent_token", "consent_required")
           ELSE IF md = "autonomous" /\ destructive /\ ~autonomy_token
           THEN Refused("requires autonomy_token", "autonomy_token_missing")
           ELSE /\ effects' = effects \o consent \o invoke
                /\ clerk_result' = Some([ok |-> result.ok, detail |-> result.detail,
                                         tool_detail |-> result.detail])
        /\ UNCHANGED <<cfg, autonomy_token>>
        /\ UNCHANGED <<routerVars, evolutionVars, overseerVars, queryVars, callVars,
                       teachingVars, memoryVars, learningVars, brainVars, chatVars>>

(***************************************************************************)
(* Specifications                                                          *)
(***************************************************************************)
Init ==
    /\ message = ""
    /\ mode = "auto"
    /\ routing_hint = None
    /\ routing = None
    /\ evolution_state = InitialEvolutionState
    /\ evolution_file = None
    /\ suggested = None
    /\ overseer_file = <<>>
    /\ lessons_result = None
    /\ search_result = None
    /\ hint_result = None
    /\ cleaned = None
    /\ cfg = DefaultClerkConfig
    /\ autonomy_token = FALSE
    /\ effects = <<>>
    /\ clerk_result = None
    /\ llm_calls = 0
    /\ lessons = <<>>
    /\ teachings_file = <<>>
    /\ messages = <<>>
    /\ messages_file = <<>>
    /\ now = 0
    /\ context_result = None
    /\ InitPipeline

NextRouter ==
    \E msg \in RouterMessages, md \in Modes, hint \in HintInputs :
        RouteMessage(msg, md, hint)

SpecRouter == Init /\ [][NextRouter]_vars

NextEvolution ==
    \/ \E agents_used \in AgentsUsedInputs, success \in BOOLEAN :
           record_interaction(agents_used, success)
    \/ trigger_generation_increment
    \/ suggest_actions
    \/ \E confidence \in ConfidenceInputs : reflect_on_performance(confidence)

SpecEvolution == Init /\ [][NextEvolution]_vars

\* interactions recorded in the evolution.json found at start-up
LoadedInteractions == 98

\* ledgers read from evolution.json at start-up: LoadedInteractions
\* unsuccessful interactions, and documents holding proficiencies below 1.0
LoadedLedgers ==
    {[InitialEvolutionState EXCEPT !.total_interactions = LoadedInteractions],
     [InitialEvolutionState EXCEPT !.total_interactions = 100,
                                   !.successful_resolutions = 60,
                                   !.agent_proficiency["Architect"] = 75],
     [InitialEvolutionState EXCEPT !.total_interactions = 1,
                                   !.successful_resolutions = 1,
                                   !.agent_proficiency["Alfred"] = 70,
                                   !.agent_proficiency["Analyst"] = 70],
     [InitialEvolutionState EXCEPT !.total_interactions = 2,
                                   !.agent_proficiency["Analyst"] = 75,
                                   !.agent_proficiency["Batman"] = 80]}

\* the ledger after _load_evolution_state: fresh, or read from evolution.json
InitOverseer ==
    /\ message = ""
    /\ mode = "auto"
    /\ routing_hint = None
    /\ routing = None
    /\ \/ evolution_state = InitialEvolutionState /\ evolution_file = None
       \/ /\ evolution_state \in LoadedLedgers
          /\ evolution_file = Some(evolution_state)
    /\ suggested = None
    /\ overseer_file = <<>>
    /\ lessons_result = None
    /\ search_result = None
    /\ hint_result = None
    /\ cleaned = None
    /\ cfg = DefaultClerkConfig
    /\ autonomy_token = FALSE
    /\ effects = <<>>
    /\ clerk_result = None
    /\ llm_calls = 0
    /\ lessons = <<>>
    /\ teachings_file = <<>>
    /\ messages = <<>>
    /\ messages_file = <<>>
    /\ now = 0
    /\ context_result = None
    /\ InitPipeline

NextOverseer ==
    \/ \E agents_used \in {<<>>, <<"Jarvis", "Analyst">>}, success \in BOOLEAN :
           record_interaction(agents_used, success)
    \/ suggest_actions

SpecOverseer == InitOverseer /\ [][NextOverseer]_vars

\* the store after _load: empty, or one lesson read from teachings.jsonl
InitTeachings ==
    /\ message = ""
    /\ mode = "auto"
    /\ routing_hint = None
    /\ routing = None
    /\ evolution_state = InitialEvolutionState
    /\ evolution_file = None
    /\ suggested = None
    /\ overseer_file = <<>>
    /\ lessons_result = None
    /\ search_result = None
    /\ hint_result = None
    /\ cleaned = None
    /\ cfg = DefaultClerkConfig
    /\ autonomy_token = FALSE
    /\ effects = <<>>
    /\ clerk_result = None
    /\ llm_calls = 0
    /\ \/ lessons = <<>>
       \/ \E s \in InitScores :
              lessons = <<[NewLesson(0, 0, "deploys", "always run tests first", <<"ci">>)
                              EXCEPT !.effectiveness_score = s]>>
    /\ teachings_file = lessons
    /\ messages = <<>>
    /\ messages_file = <<>>
    /\ now = 0
    /\ context_result = None
    /\ InitPipeline

NextTeachings ==
    \/ \E l \in LessonInputs : add_lesson(l.topic, l.instruction, l.tags)
    \/ \E id \in {lessons[i].id : i \in 1..Len(lessons)} \cup {UnknownLessonId},
          was_helpful \in BOOLEAN :
           mark_lesson_used(id, was_helpful)

SpecTeachings == InitTeachings /\ [][NextTeachings]_vars

\* a stored lesson after `helpful` helpful and `unhelpful` unhelpful marks, none
\* of them clamped
Marked(lesson, helpful, unhelpful) ==
    [lesson EXCEPT !.usage_count = helpful + unhelpful,
                   !.effectiveness_score = 50 + 10 * helpful - 10 * unhelpful]

\* stores left by earlier add_lesson and mark_lesson_used calls
LessonStores ==
    LET deploys(n) == NewLesson(n, 0, "deploys", "always run tests first", <<"ci">>)
        email(n)   == NewLesson(n, 0, "email", "keep it short", <<>>)
    IN  {<<>>,
         <<Marked(deploys(0), 5, 0)>>,
         <<Marked(deploys(0), 0, 5)>>,
         <<Marked(email(0), 0, 5)>>,
         <<Marked(deploys(0), 5, 0), Marked(email(1), 0, 3)>>,
         <<Marked(email(0), 2, 0), Marked(deploys(1), 0, 1)>>}

\* the store read from teachings.jsonl at start-up
InitLessons ==
    /\ message = ""
    /\ mode = "auto"
    /\ routing_hint = None
    /\ routing = None
    /\ evolution_state = InitialEvolutionState
    /\ evolution_file = None
    /\ suggested = None
    /\ overseer_file = <<>>
    /\ lessons_result = None
    /\ search_result = None
    /\ hint_result = None
    /\ cleaned = None
    /\ cfg = DefaultClerkConfig
    /\ autonomy_token = FALSE
    /\ effects = <<>>
    /\ clerk_result = None
    /\ llm_calls = 0
    /\ lessons \in LessonStores
    /\ teachings_file = lessons
    /\ messages = <<>>
    /\ messages_file = <<>>
    /\ now = 0
    /\ context_result = None
    /\ InitPipeline
    /\ backend.available

NextLessons ==
    \/ \E l \in LessonInputs : add_lesson(l.topic, l.instruction, l.tags)
    \/ \E query \in LessonQueries, k \in LessonLimits : RelevantLessons(query, k)
    \/ Tick

SpecLessons == InitLessons /\ [][NextLessons]_vars

NextMemory ==
    \/ \E u \in UserInputs, a \in AssistantInputs : add_message(u, a)
    \/ \E k \in -1..(MaxMessages + 1) : get_context(k)
    \/ Tick

SpecMemory == Init /\ [][NextMemory]_vars

NextSearch ==
    \/ \E u \in UserInputs, a \in AssistantInputs : add_message(u, a)
    \/ \E query \in SearchQueries, k \in SearchLimits : search(query, k)

\* the state after construction with the model loaded
InitSearch == Init /\ backend.available

SpecSearch == InitSearch /\ [][NextSearch]_vars

SpecChat == Init /\ [][NextChat]_vars

SpecReflex == Init /\ [][NextReflex]_vars

NextCleanup ==
    \/ \E u \in UserInputs, a \in AssistantInputs : add_message(u, a)
    \/ \E days \in CleanupDays : cleanup_old_entries(days)
    \/ Tick

\* the state after construction with the model loaded
InitCleanup == Init /\ backend.available

SpecCleanup == InitCleanup /\ [][NextCleanup]_vars

NextLearning ==
    \/ \E l \in LearnInputs : learn_from_interaction(l.message, l.agents_used, 70)
    \/ \E keywords \in HintKeywords : RoutingHint(keywords)

\* the state after construction with the model loaded
InitLearning == Init /\ backend.available

SpecLearning == InitLearning /\ [][NextLearning]_vars

NextClerk ==
    \E name \in ClerkTools, args \in ClerkArgs, consent_token \in ConsentTokens,
       tool_ok \in BOOLEAN :
        Clerk_execute(name, args, consent_token, tool_ok)

\* the state after Clerk.__init__: the configuration read by load_config, and
\* data/autonomy_token.txt present or not
InitClerk ==
    /\ message = ""
    /\ mode = "auto"
    /\ routing_hint = None
    /\ routing = None
    /\ evolution_state = InitialEvolutionState
    /\ evolution_file = None
    /\ suggested = None
    /\ overseer_file = <<>>
    /\ lessons_result = None
    /\ search_result = None
    /\ hint_result = None
    /\ cleaned = None
    /\ cfg \in ClerkConfigs
    /\ autonomy_token \in BOOLEAN
    /\ effects = <<>>
    /\ clerk_result = None
    /\ llm_calls = 0
    /\ lessons = <<>>
    /\ teachings_file = <<>>
    /\ messages = <<>>
    /\ messages_file = <<>>
    /\ now = 0
    /\ context_result = None
    /\ InitPipeline

SpecClerk == InitClerk /\ [][NextClerk]_vars

NextCouncil ==
    \/ \E msg \in CouncilMessages, md \in Modes, hint \in CouncilHints :
           Council_Process(msg, md, hint)
    \/ Process_Consult
    \/ Process_Synthesize

SpecCouncil == Init /\ [][NextCouncil]_vars

Next ==
    \/ NextRouter \/ NextEvolution \/ NextOverseer \/ NextTeachings \/ NextLessons
    \/ NextMemory \/ NextSearch \/ NextChat \/ NextCouncil \/ NextReflex
    \/ NextLearning \/ NextCleanup \/ NextClerk

Spec == Init /\ [][Next]_vars

(***************************************************************************)
(* Properties of the router                                                *)
(***************************************************************************)
\* C3: whatever the message and the routing hint, reflex mode selects exactly
\* the one persona Jarvis, council mode selects the six registered personas in
\* registry order, and strategic mode selects Batman, Architect, Analyst.
C3_FixedModeSelection ==
    ~IsNone(routing) =>
        LET agents == Get(routing).agents IN
        /\ mode = "reflex"    => agents = <<"Jarvis">>
        /\ mode = "council"   => agents = <<"Batman", "Alfred", "Jarvis",
                                            "DaVinci", "Architect", "Analyst">>
        /\ mode = "strategic" => agents = <<"Batman", "Architect", "Analyst">>

\* a code message routed in strategic mode with a hint supplied
C3_Witness ==
    /\ ~IsNone(routing)
    /\ mode = "strategic"
    /\ Truthy(routing_hint)
    /\ signals(message).code
    /\ Get(routing).agents = <<"Batman", "Architect", "Analyst">>

\* C4: in auto mode without a routing hint the selection is decided by the
\* first matching keyword category in the order code, scheduling/communication,
\* creative, security, data; no match selects Jarvis, Analyst.  A message with
\* a scheduling or email keyword and no code keyword yields Alfred, Jarvis.
C4_AutoKeywordPrecedence ==
    (~IsNone(routing) /\ mode = "auto" /\ ~Truthy(routing_hint)) =>
        LET s      == signals(message)
            agents == Get(routing).agents
            comm   == s.schedule \/ s.email
        IN
        /\ s.code => agents = <<"Architect", "Analyst">>
        /\ (~s.code /\ comm) => agents = <<"Alfred", "Jarvis">>
        /\ (~s.code /\ ~comm /\ s.creative) => agents = <<"DaVinci", "Architect">>
        /\ (~s.code /\ ~comm /\ ~s.creative /\ s.security)
               => agents = <<"Batman", "Analyst">>
        /\ (~s.code /\ ~comm /\ ~s.creative /\ ~s.security /\ s.data)
               => agents = <<"Analyst", "Jarvis">>
        /\ (~s.code /\ ~comm /\ ~s.creative /\ ~s.security /\ ~s.data)
               => agents = <<"Jarvis", "Analyst">>

\* the scheduling scenario routed in auto mode without a hint
C4_Witness ==
    /\ ~IsNone(routing)
    /\ mode = "auto"
    /\ IsNone(routing_hint)
    /\ message = "Can you schedule a meeting and also write the invite email?"
    /\ Get(routing).agents = <<"Alfred", "Jarvis">>

\* C5: in auto mode with a routing hint available the selection is exactly the
\* hint's list whatever keywords the message matches; in reflex, council and
\* strategic mode the selection is the one made without any hint.
C5_HintOverridesOnlyInAuto ==
    ~IsNone(routing) =>
        LET agents == Get(routing).agents IN
        /\ (mode = "auto" /\ Truthy(routing_hint)) => agents = Get(routing_hint)
        /\ mode /= "auto" => agents = Route(message, mode, None).agents

\* a code message routed in auto mode to the hinted personas
C5_Witness ==
    /\ ~IsNone(routing)
    /\ mode = "auto"
    /\ routing_hint = Some(<<"Jarvis", "Alfred">>)
    /\ signals(message).code
    /\ Get(routing).agents = <<"Jarvis", "Alfred">>

(***************************************************************************)
(* Properties of the evolution ledger                                      *)
(***************************************************************************)
\* C6: after any sequence of record_interaction calls every persona's
\* proficiency lies in [0.1, 1.0].
C6_ProficiencyInRange ==
    \A a \in DOMAIN evolution_state.agent_proficiency :
        /\ evolution_state.agent_proficiency[a] >= 10
        /\ evolution_state.agent_proficiency[a] <= 100

\* the ledger entry of a persona the router can select
LedgerKey(persona) == IF persona = "Jarvis" THEN "Jarvis Core" ELSE persona

\* C7: each record_interaction call raises the total by one; on success it
\* raises the success count by one and the proficiency of every persona named
\* in agents_used by 0.05 capped at 1.0; on failure the success count is
\* unchanged; the persisted document equals the in-memory state afterwards.
C7_RecordInteractionEffect ==
    [][\A agents_used \in AgentsUsedInputs, success \in BOOLEAN :
        record_interaction(agents_used, success) =>
            /\ evolution_state'.total_interactions
                   = evolution_state.total_interactions + 1
            /\ evolution_state'.successful_resolutions
                   = evolution_state.successful_resolutions + (IF success THEN 1 ELSE 0)
            /\ success =>
                   \A i \in 1..Len(agents_used) :
                       LET key == LedgerKey(agents_used[i])
                           old == evolution_state.agent_proficiency[key]
                       IN  key \in ProficiencyKeys =>
                               evolution_state'.agent_proficiency[key]
                                   = (IF old + 5 < 100 THEN old + 5 ELSE 100)
            /\ evolution_file' = Some(evolution_state')
      ]_vars

(***************************************************************************)
(* Properties of the teachings store                                       *)
(***************************************************************************)
ScoresInUnitInterval ==
    \A i \in 1..Len(lessons) :
        /\ lessons[i].effectiveness_score >= 0
        /\ lessons[i].effectiveness_score <= 100

\* C8: for any initial score in [0,1] and any sequence of mark_lesson_used
\* calls every effectiveness score stays in [0,1]; marking helpful at 1.0 or
\* unhelpful at 0.0 leaves the score unchanged.
C8_EffectivenessClamped ==
    /\ []ScoresInUnitInterval
    /\ [][\A id \in {lessons[i].id : i \in 1..Len(lessons)}, was_helpful \in BOOLEAN :
            mark_lesson_used(id, was_helpful) =>
                \A i \in 1..Len(lessons) :
                    (\/ (was_helpful /\ lessons[i].effectiveness_score = 100)
                     \/ (~was_helpful /\ lessons[i].effectiveness_score = 0))
                        => lessons'[i].effectiveness_score
                               = lessons[i].effectiveness_score
         ]_vars

\* a lesson marked at least twice whose score sits on a bound of the interval
C8_Witness ==
    \E i \in 1..Len(lessons) :
        /\ lessons[i].usage_count >= 2
        /\ lessons[i].effectiveness_score \in {0, 100}

(***************************************************************************)
(* Properties of the conversation memory                                   *)
(***************************************************************************)
\* the last k elements of seq, in order
LastK(seq, k) == [i \in 1..k |-> seq[Len(seq) - k + i]]

\* C9: with N turns stored, get_context(k) for every 0 <= k <= N returns
\* exactly the last k turns in order, conversation_length = N and the
\* timestamp of the last turn, and leaves the stored log unchanged.
C9_GetContextLastK ==
    [][\A k \in 0..Len(messages) :
        get_context(k) =>
            LET r == Get(context_result') IN
            /\ r.recent_messages = LastK(messages, k)
            /\ Len(r.recent_messages) = k
            /\ r.conversation_length = Len(messages)
            /\ messages /= <<>> =>
                   r.last_interaction = Some(messages[Len(messages)].timestamp)
            /\ messages' = messages
            /\ messages_file' = messages_file
      ]_vars

RecordsHaveText ==
    \A i \in 1..Len(messages) :
        ~IsNone(messages[i].user) \/ ~IsNone(messages[i].assistant)

\* C10: after any sequence of add_message calls with any combination of
\* present and absent arguments every record has a non-null user or assistant
\* field, and each call appends exactly one record to the in-memory list and
\* to the persisted log.
C10_RecordsHaveTextAndAppendOne ==
    /\ []RecordsHaveText
    /\ [][\A u \in UserInputs, a \in AssistantInputs :
            add_message(u, a) =>
                /\ Len(messages') = Len(messages) + 1
                /\ SubSeq(messages', 1, Len(messages)) = messages
                /\ Len(messages_file') = Len(messages_file) + 1
                /\ SubSeq(messages_file', 1, Len(messages_file)) = messages_file
                /\ messages'[Len(messages')] = messages_file'[Len(messages_file')]
         ]_vars

\* C1: for every chat request with a non-empty message and a requested mode
\* in {auto, reflex, council, strategic}, the route_metadata.mode of the chat
\* response equals the requested mode.
C1_ResponseModeIsRequestedMode ==
    (/\ pc = "idle"
     /\ ~IsNone(chat_response)
     /\ Get(chat_response).status = 200
     /\ ~IsNone(request.mode))
        => Get(Get(chat_response).route_metadata).mode = Get(request.mode)

\* C2: for every non-empty message, every mode and every outcome of the
\* generation backend (any returned text, an empty one included, or a
\* failure), the chat request completes with an output of length > 0.
C2_OutputNonEmpty ==
    (/\ pc = "idle"
     /\ ~IsNone(chat_response)
     /\ Get(chat_response).status = 200)
        => Len(Get(chat_response).output) > 0

\* C11: the list returned by suggest_actions after exactly n record_interaction
\* calls on a fresh ledger contains the memory-consolidation suggestion if and
\* only if n is a positive multiple of 100.
C11_ConsolidationOnEvery100th ==
    [][suggest_actions =>
          LET n == evolution_state.total_interactions IN
          (\E i \in 1..Len(Get(suggested')) : Get(suggested')[i].id = "memory_optimize")
              <=> (n > 0 /\ n % 100 = 0)
      ]_vars

\* C12: a chat request whose message is empty or only whitespace is answered
\* with HTTP status 400 before it enters the pipeline: no turn is appended to
\* the conversation memory, no persona is consulted, and the evolution ledger
\* and the pattern log are unchanged.
C12_EmptyMessageRejectedWith400 ==
    [][\A msg \in ChatMessages, md \in RequestModes :
          (Chat_Receive(msg, md) /\ Strip(msg) = "") =>
              /\ Get(chat_response').status = 400
              /\ pc' = "idle"
              /\ UNCHANGED <<messages, messages_file, trace, consult_i>>
              /\ UNCHANGED <<evolutionVars, callVars, learningVars>>
      ]_vars

\* C13: for the greeting "hi" requested in reflex mode the response reports
\* exactly one routed persona, Jarvis, in route_metadata.agents and a non-empty
\* output, whether or not the generation backend is available.
C13_GreetingRoutedToJarvis ==
    (/\ pc = "idle"
     /\ ~IsNone(chat_response)
     /\ request.message = "hi"
     /\ request.mode = Some("reflex"))
        => /\ Get(chat_response).status = 200
           /\ Get(Get(chat_response).route_metadata).agents = <<"Jarvis">>
           /\ Len(Get(chat_response).output) > 0

(***************************************************************************)
(* Properties of the lesson lookup                                         *)
(***************************************************************************)
\* the score of a lesson for a query as the lookup is documented, times 100:
\* 3 when the topic contains the query, 2 for each tag that is a query word,
\* 1 for each token shared by the instruction and the query, the sum
\* multiplied by 0.5 + effectiveness_score
DocumentedScore(lesson, query) ==
    LET words(text) == {Split(Lower(text))[i] : i \in 1..Len(Split(Lower(text)))}
        topic_points == IF Contains(Lower(lesson.topic), Lower(query)) THEN 3 ELSE 0
        tag_points   == 2 * Cardinality({t \in DOMAIN lesson.tags :
                                             Lower(lesson.tags[t]) \in words(query)})
        shared       == Cardinality(words(lesson.instruction) \cap words(query))
    IN  (topic_points + tag_points + shared) * (50 + lesson.effectiveness_score)

\* C14: get_relevant_lessons(query, k) for k >= 0 returns at most k lessons,
\* all with score > 0, in descending order of the documented score, equal
\* scores in insertion order, no better lesson left out, and the store is not
\* modified; the lesson tagged "ci" whose instruction contains "tests" is
\* returned for the query "what about ci tests".
C14_RelevantLessonsRanked ==
    [][\A query \in LessonQueries, k \in LessonLimits :
          RelevantLessons(query, k) =>
              LET r        == Get(lessons_result')
                  at(l)    == CHOOSE p \in 1..Len(lessons) : lessons[p].id = l.id
                  score(l) == DocumentedScore(l, query)
                  before(a, b) == \/ score(a) > score(b)
                                  \/ (score(a) = score(b) /\ at(a) < at(b))
                  positive == {p \in 1..Len(lessons) : score(lessons[p]) > 0}
                  returned == {at(r[i]) : i \in 1..Len(r)}
              IN  /\ Len(r) = (IF k < Cardinality(positive)
                               THEN k ELSE Cardinality(positive))
                  /\ \A i \in 1..Len(r) :
                         /\ \E p \in 1..Len(lessons) : lessons[p] = r[i]
                         /\ score(r[i]) > 0
                  /\ \A i, j \in 1..Len(r) : i < j => before(r[i], r[j])
                  /\ \A p \in positive \ returned :
                         \A i \in 1..Len(r) : before(r[i], lessons[p])
                  /\ (query = "what about ci tests" /\ k >= Cardinality(positive)) =>
                         \A p \in 1..Len(lessons) :
                             lessons[p].topic = "deploys" => p \in returned
                  /\ UNCHANGED <<lessons, teachings_file>>
      ]_vars

\* two lessons of equal score were returned in their insertion order
C14_Witness ==
    /\ ~IsNone(lessons_result)
    /\ Len(Get(lessons_result)) = 2
    /\ Get(lessons_result)[1].topic = "deploys"
    /\ Get(lessons_result)[2].topic = "deploys"
    /\ Get(lessons_result)[1].effectiveness_score
           = Get(lessons_result)[2].effectiveness_score
    /\ Get(lessons_result)[1].id[1] < Get(lessons_result)[2].id[1]

(***************************************************************************)
(* Properties of the memory search                                         *)
(***************************************************************************)
\* C15: for every query and every k >= 0, search(query, k) returns exactly the
\* min(k, m) most recent records whose user text contains the query
\* case-insensitively, most recent first, m being the number of such records;
\* never more than k results, never a record matched through its assistant
\* text only.
C15_SearchReturnsMostRecentMatches ==
    [][\A query \in SearchQueries, k \in SearchLimits :
          search(query, k) =>
              LET r       == Get(search_result')
                  matches == {p \in 1..Len(messages) :
                                 /\ ~IsNone(messages[p].user)
                                 /\ Contains(Lower(Get(messages[p].user)), Lower(query))}
                  \* the i-th most recent matching position
                  nth(i)  == CHOOSE p \in matches :
                                 Cardinality({q \in matches : q > p}) = i - 1
              IN  /\ Len(r) = (IF k < Cardinality(matches)
                               THEN k ELSE Cardinality(matches))
                  /\ Len(r) <= k
                  /\ \A i \in 1..Len(r) :
                         /\ r[i].text = Get(messages[nth(i)].user)
                         /\ r[i].timestamp = messages[nth(i)].timestamp
                  /\ UNCHANGED <<messages, messages_file>>
      ]_vars

(***************************************************************************)
(* Frame of mark_lesson_used                                               *)
(***************************************************************************)
\* C16: mark_lesson_used with an id that matches no stored lesson changes
\* neither the lessons nor the persisted file; with an id that matches a lesson
\* it raises that lesson's usage count by exactly 1, moves its effectiveness by
\* 0.1 up (helpful) or down (not helpful) clamped to [0,1], and leaves every
\* other lesson unchanged; no call ever removes a lesson.
C16_MarkLessonUsedFrame ==
    [][/\ \A id \in {lessons[i].id : i \in 1..Len(lessons)} \cup {UnknownLessonId},
             was_helpful \in BOOLEAN :
             mark_lesson_used(id, was_helpful) =>
                 IF \A p \in 1..Len(lessons) : lessons[p].id # id
                 THEN UNCHANGED <<lessons, teachings_file>>
                 ELSE /\ Len(lessons') = Len(lessons)
                      /\ \A p \in 1..Len(lessons) :
                             IF lessons[p].id = id
                             THEN LET old == lessons[p].effectiveness_score
                                      moved == IF was_helpful
                                               THEN (IF old + 10 > 100 THEN 100 ELSE old + 10)
                                               ELSE (IF old - 10 < 0 THEN 0 ELSE old - 10)
                                  IN  lessons'[p] =
                                          [lessons[p] EXCEPT
                                               !.usage_count = @ + 1,
                                               !.effectiveness_score = moved]
                             ELSE lessons'[p] = lessons[p]
                      /\ teachings_file' = lessons'
       /\ Len(lessons') >= Len(lessons)
       /\ \A p \in 1..Len(lessons) : lessons'[p].id = lessons[p].id
      ]_vars

\* the second of two stored lessons has been marked, the first never
C16_Witness ==
    /\ Len(lessons) = 2
    /\ lessons[1].usage_count = 0
    /\ lessons[2].usage_count = 2
    /\ lessons[2].effectiveness_score = 30
    /\ teachings_file = lessons

(***************************************************************************)
(* Properties of the council                                               *)
(***************************************************************************)
\* C17: when the proposal list handed to the synthesizer is empty (no selected
\* name matches a registered persona) the synthesizer returns the fixed
\* apology string and makes no generation backend call.
C17_EmptyTraceGivesApology ==
    [][(Process_Synthesize /\ trace = <<>>) =>
          /\ Get(council_result').output
                 = "I couldn't process that request. Could you rephrase it?"
          /\ llm_calls' = llm_calls
      ]_vars

\* process returned for a routing that names only an unregistered persona
C17_Witness ==
    /\ pc = "idle"
    /\ ~IsNone(council_result)
    /\ Get(council_result).routing.agents = <<"Robin">>
    /\ Get(council_result).trace = <<>>
    /\ Get(council_result).output
           = "I couldn't process that request. Could you rephrase it?"
    /\ llm_calls = 0

RECURSIVE ProposalLines(_)
\* "- " and the first 200 characters of each proposal, joined by newlines
ProposalLines(tr) ==
    IF tr = <<>> THEN ""
    ELSE IF Len(tr) = 1 THEN "- " \o Prefix(tr[1].proposal, 200)
    ELSE "- " \o Prefix(tr[1].proposal, 200) \o "\n" \o ProposalLines(Tail(tr))

\* C18: whenever the backend call made by the synthesizer fails (model
\* unavailable or generation error) with a non-empty proposal list, the output
\* is the fixed lead-in sentence followed by the first 200 characters of each
\* proposal in trace order, and never the backend's own error text.
C18_SynthesisFallsBackOnFailure ==
    [][(Process_Synthesize /\ trace # <<>>) =>
          /\ ~backend.available =>
                 Get(council_result').output
                     = "Based on council analysis:\n\n" \o ProposalLines(trace)
          /\ ~StartsWith(Get(council_result').output, "[LLM Error]")
      ]_vars

\* the agent names of a trace, in order
TraceAgents(tr) == [i \in 1..Len(tr) |-> tr[i].agent]

\* the selected names that are registered in the council, in routing order
RegisteredOf(names) == SelectSeq(names, LAMBDA n : n \in Range(AgentNames))

\* C19: for every request the trace contains exactly one entry for each
\* selected persona that is registered in the council, in routing order,
\* whether its propose returned normally, returned an error text or raised;
\* a raised error becomes an error-text proposal, the remaining personas are
\* still consulted and the trace is what process returns.
C19_TraceHasEverySelectedPersona ==
    /\ pc = "consult" =>
           TraceAgents(trace)
               = RegisteredOf(SubSeq(Get(routing).agents, 1, consult_i - 1))
    /\ ~IsNone(council_result) =>
           /\ TraceAgents(Get(council_result).trace)
                  = RegisteredOf(Get(council_result).routing.agents)
           /\ \A i \in 1..Len(Get(council_result).trace) :
                  Get(council_result).trace[i].agent = "Jarvis" =>
                      Get(council_result).trace[i].proposal
                          = "[Error: " \o ToolResultError \o "]"

\* process returned a trace holding an error text from a persona without a
\* model and the error of a persona that raised, the unregistered name skipped
C19_Witness ==
    /\ pc = "idle"
    /\ ~IsNone(council_result)
    /\ Get(council_result).routing.agents = <<"Robin", "Batman", "Jarvis">>
    /\ Len(Get(council_result).trace) = 2
    /\ Get(council_result).trace[1].proposal
           = "[Batman] Cannot process: No GGUF model found."
    /\ StartsWith(Get(council_result).trace[2].proposal, "[Error: ")

\* C20: the generation counter never decreases; trigger_generation_increment
\* raises it by exactly 1 whatever the ledger holds and leaves the total of
\* interactions, the success count and the proficiencies unchanged, while
\* record_interaction, suggest_actions and reflect_on_performance leave the
\* generation as it is.
C20_GenerationOnlyGrowsByTrigger ==
    [][/\ evolution_state'.generation >= evolution_state.generation
       /\ trigger_generation_increment =>
              /\ evolution_state'.generation = evolution_state.generation + 1
              /\ evolution_state'.total_interactions
                     = evolution_state.total_interactions
              /\ evolution_state'.successful_resolutions
                     = evolution_state.successful_resolutions
              /\ evolution_state'.agent_proficiency
                     = evolution_state.agent_proficiency
       /\ \A agents_used \in AgentsUsedInputs, success \in BOOLEAN :
              record_interaction(agents_used, success) =>
                  evolution_state'.generation = evolution_state.generation
       /\ suggest_actions =>
              evolution_state'.generation = evolution_state.generation
       /\ \A confidence \in ConfidenceInputs :
              reflect_on_performance(confidence) =>
                  evolution_state'.generation = evolution_state.generation
      ]_vars

\* generations were triggered on a ledger that holds recorded interactions,
\* successes and raised proficiencies, with suggestions and a reflection made
C20_Witness ==
    /\ evolution_state.generation = MaxGeneration
    /\ evolution_state.total_interactions > 0
    /\ evolution_state.successful_resolutions > 0
    /\ \E a \in ProficiencyKeys : evolution_state.agent_proficiency[a] > 100
    /\ ~IsNone(suggested)
    /\ reflections # <<>>
    /\ evolution_file = Some(evolution_state)

\* C21: in every ledger state reached by record_interaction and
\* trigger_generation_increment calls the success count is at most the total
\* of interactions, so the success_rate of the evolution status lies in [0,1],
\* and it is 0 when no interaction has been recorded.
C21_SuccessRateInUnitInterval ==
    LET rate == get_status(evolution_state).success_rate IN
    /\ evolution_state.successful_resolutions >= 0
    /\ evolution_state.successful_resolutions <= evolution_state.total_interactions
    /\ rate.den > 0
    /\ 0 <= rate.num
    /\ rate.num <= rate.den
    /\ evolution_state.total_interactions = 0 => rate.num = 0

\* a ledger of a later generation holding successes and failures
C21_Witness ==
    /\ evolution_state.generation > 0
    /\ evolution_state.total_interactions = MaxInteractions
    /\ evolution_state.successful_resolutions = 2
    /\ get_status(evolution_state).success_rate = [num |-> 2, den |-> MaxInteractions]

(***************************************************************************)
(* Properties of the orchestrator                                          *)
(***************************************************************************)
\* the cognitive states of a request in the order think assigns them
StateOrder == <<"PERCEIVING", "PREDICTING", "THINKING", "DELIBERATING", "REFLECTING">>

\* the position of a cognitive state in StateOrder, 0 for IDLE
StateRank(st) ==
    IF st = "IDLE" THEN 0 ELSE CHOOSE i \in 1..Len(StateOrder) : StateOrder[i] = st

\* think has returned to chat (the reply is known and not yet sent, or sent)
ThinkReturned == via = "brain" /\ pc \in {"respond", "idle"}

\* C22: within a request the steps of think occur in the order perceive,
\* reflex check, analyze, retrieve (memory context and routing hint), route
\* and consult the council, score, record in the ledgers; the cognitive state
\* moves only to the next of PERCEIVING, PREDICTING, THINKING, DELIBERATING,
\* REFLECTING, leaves the sequence for IDLE only from REFLECTING or, on the
\* reflex fast path, directly from PERCEIVING, and is IDLE whenever think has
\* returned.
C22_StepsInOrder ==
    /\ [](ThinkReturned => self_awareness.current_state = "IDLE")
    /\ [][LET old == self_awareness.current_state
              new == self_awareness'.current_state
          IN
          \* the cognitive state moves forward one stage at a time
          /\ new # old =>
                 \/ old = "IDLE" /\ new = "PERCEIVING"
                 \/ old # "IDLE" /\ new # "IDLE" /\ StateRank(new) = StateRank(old) + 1
                 \/ old = "REFLECTING" /\ new = "IDLE"
                 \/ /\ old = "PERCEIVING" /\ new = "IDLE"
                    /\ ~IsNone(check_reflex(request.message, inhibitions))
                    /\ _is_simple_query(request.message)
          \* analyze follows the reflex check, which follows perceive
          /\ (IsNone(analysis) /\ ~IsNone(analysis')) =>
                 /\ old = "PREDICTING" /\ new = "THINKING"
                 /\ ~IsNone(chain)
                 /\ IsNone(memory_context) /\ IsNone(learned_hint)
          \* retrieve follows analyze
          /\ (via' = "brain" /\ IsNone(memory_context) /\ ~IsNone(memory_context')) =>
                 /\ ~IsNone(analysis)
                 /\ old = "THINKING"
                 /\ IsNone(council_result)
          \* the council is entered after retrieve
          /\ (via' = "brain" /\ pc # "consult" /\ pc' = "consult") =>
                 /\ ~IsNone(memory_context)
                 /\ new = "DELIBERATING"
                 /\ routing_hint' = learned_hint
          \* the reply is scored after the council has returned
          /\ new = "REFLECTING" /\ old # "REFLECTING" =>
                 /\ ~IsNone(council_result)
                 /\ Len(Get(council_result).trace)
                        = Len(RegisteredOf(Get(council_result).routing.agents))
                 /\ ~IsNone(Get(chain').conclusion)
          \* the ledgers are written after the reply has been scored
          /\ (patterns' # patterns \/ evolution_state' # evolution_state) =>
                 /\ ~IsNone(Get(chain).conclusion)
                 /\ ~IsNone(council_result)
                 /\ old = "IDLE"
                 /\ pc' = "respond"
         ]_vars

\* think returned after a full deliberation recorded in both ledgers
C22_Witness ==
    /\ ThinkReturned
    /\ pc = "respond"
    /\ self_awareness.current_state = "IDLE"
    /\ ~IsNone(analysis)
    /\ ~IsNone(memory_context)
    /\ ~IsNone(council_result)
    /\ Len(Get(council_result).trace) = 2
    /\ Len(patterns) = 1
    /\ evolution_state.total_interactions = 1

\* the request being served is on the reflex fast path of think: no analysis
\* was made and think has not raised
OnFastPath == via = "brain" /\ IsNone(analysis) /\ pc = "respond"

\* C23: the reflex fast path is taken only for a message of fewer than 5 words
\* that contains a greeting or closing trigger and matches a reflex that is not
\* inhibited; the reply is then that reflex's canned response, no persona is
\* consulted, no generation backend call is made, and the evolution ledger and
\* the learned-pattern log are left as they were.
C23_ReflexFastPath ==
    [][/\ (Think_ReflexCheck /\ pc' = "respond") =>
              /\ Len(Split(request.message)) < 5
              /\ AnyIn(Lower(request.message),
                       <<"hello", "hi", "hey", "thanks", "bye", "goodbye">>)
              /\ \E i \in 1..Len(Reflexes) :
                     /\ AnyIn(Lower(request.message), Reflexes[i].triggers)
                     /\ Reflexes[i].name \notin inhibitions
                     /\ \A j \in 1..(i - 1) :
                            \/ ~AnyIn(Lower(request.message), Reflexes[j].triggers)
                            \/ Reflexes[j].name \in inhibitions
                     /\ final_response' = Some(Reflexes[i].response)
              /\ UNCHANGED <<evolutionVars, learningVars, callVars, trace, consult_i>>
       /\ (OnFastPath /\ Chat_Respond) =>
              /\ Get(chat_response').output = Get(final_response)
              /\ Get(Get(chat_response').route_metadata).agents = <<>>
              /\ trace = <<>>
              /\ IsNone(council_result)
              /\ UNCHANGED <<evolutionVars, learningVars, callVars>>
       /\ (via' = "brain" /\ IsNone(analysis')) =>
              /\ UNCHANGED <<evolutionVars, learningVars>>
              /\ llm_calls' <= llm_calls
              /\ trace' = <<>>
      ]_vars

\* with the thanks reflex inhibited, "thanks, bye" was answered by the goodbye
\* reflex with nothing recorded
C23_Witness ==
    /\ pc = "idle"
    /\ "thanks" \in inhibitions
    /\ request.message = "thanks, bye"
    /\ ~IsNone(chat_response)
    /\ Get(chat_response).output = "Goodbye! Take care."
    /\ evolution_state = InitialEvolutionState
    /\ patterns = <<>>
    /\ llm_calls = 0

\* C24: in every request the synthesizer's generation backend call starts only
\* after the consultation of every selected persona has completed, its
\* proposal or error entry being in the trace, and at most one synthesis call
\* is made per request.
C24_SynthesisAfterAllConsultations ==
    [][/\ Process_Synthesize =>
              /\ consult_i > Len(Get(routing).agents)
              /\ TraceAgents(trace) = RegisteredOf(Get(routing).agents)
              /\ Get(council_result').trace = trace
              /\ llm_calls' - llm_calls = (IF trace = <<>> THEN 0 ELSE 1)
              /\ pc' # "consult"
       \* a backend call is made by a consultation or by the one synthesis
       /\ llm_calls' > llm_calls =>
              /\ pc = "consult"
              /\ llm_calls' = llm_calls + 1
              /\ pc' = "consult" => consult_i' = consult_i + 1
       \* the next synthesis belongs to a new call of process
       /\ (pc # "consult" /\ pc' = "consult") =>
              trace' = <<>> /\ llm_calls' = 0 /\ consult_i' = 1
      ]_vars

\* process returned after three consultations and one synthesis call
C24_Witness ==
    /\ pc = "idle"
    /\ ~IsNone(council_result)
    /\ Len(Get(council_result).routing.agents) = 3
    /\ Len(Get(council_result).trace) = 3
    /\ backend.available
    /\ llm_calls = 4

\* the confidence of a reply as documented, in hundredths: 0.7, minus 0.4 for
\* an error marker, minus 0.2 for fewer than 5 words, plus 0.1 for more than
\* 20 words, plus 0.1 for an actionable phrase
DocumentedConfidence(reply) ==
    LET words == Cardinality({i \in 1..Len(reply) :
                     /\ ~IsSpace(SubSeq(reply, i, i))
                     /\ (i = 1 \/ IsSpace(SubSeq(reply, i - 1, i - 1)))})
        marked(w) == \E i \in 1..Len(reply) :
                         i + Len(w) - 1 <= Len(reply)
                             /\ SubSeq(reply, i, i + Len(w) - 1) = w
        has(w) == \E i \in 1..Len(reply) :
                      i + Len(w) - 1 <= Len(reply)
                          /\ Lower(SubSeq(reply, i, i + Len(w) - 1)) = w
    IN  70 - (IF marked("[Error]") \/ marked("[LLM Error]") THEN 40 ELSE 0)
           - (IF words < 5 THEN 20 ELSE 0)
           + (IF words > 20 THEN 10 ELSE 0)
           + (IF has("here's") \/ has("here is") \/ has("you can") \/ has("to do this")
              THEN 10 ELSE 0)

\* C25: the confidence score computed for a reply is the documented sum and
\* always lies in [0.1, 1.0], and the success flag passed to
\* record_interaction for that request is true exactly when the score is
\* greater than 0.6.
C25_ConfidenceDrivesSuccess ==
    [][/\ Think_Integrate =>
              /\ Get(chain').confidence >= 10
              /\ Get(chain').confidence <= 100
              /\ Get(chain').confidence = DocumentedConfidence(Get(final_response'))
       /\ Think_Record =>
              /\ Get(chain).confidence = DocumentedConfidence(Get(final_response))
              /\ evolution_state'.total_interactions
                     = evolution_state.total_interactions + 1
              /\ (evolution_state'.successful_resolutions
                      = evolution_state.successful_resolutions + 1)
                     <=> Get(chain).confidence > 60
              /\ (evolution_state'.successful_resolutions
                      = evolution_state.successful_resolutions)
                     <=> Get(chain).confidence <= 60
      ]_vars

\* a long actionable reply scored 0.9 and recorded as a success
C25_Witness ==
    /\ pc = "respond"
    /\ via = "brain"
    /\ ~IsNone(council_result)
    /\ Get(chain).confidence = 90
    /\ evolution_state.total_interactions = 1
    /\ evolution_state.successful_resolutions = 1

(***************************************************************************)
(* Properties of the learning engine                                       *)
(***************************************************************************)
\* C26: get_routing_hint(keywords) returns none exactly when no stored pattern
\* shares a keyword with the given keywords; otherwise it returns at most two
\* distinct persona names, the most frequently occurring among the at most
\* five most recent matching patterns, each of them occurring in one of those
\* patterns; the pattern log is not modified by the lookup.
C26_RoutingHintFromRecentMatches ==
    [][\A keywords \in HintKeywords :
          RoutingHint(keywords) =>
              LET matches == {p \in 1..Len(patterns) :
                                 \E i \in 1..Len(keywords), j \in 1..Len(patterns[p].keywords) :
                                     keywords[i] = patterns[p].keywords[j]}
                  recent  == {p \in matches : Cardinality({q \in matches : q > p}) < 5}
                  count(a) == Cardinality({<<p, j>> \in recent \X (1..Len(AgentNames)) :
                                              /\ j <= Len(patterns[p].agents)
                                              /\ patterns[p].agents[j] = a})
                  named   == {a \in Range(AgentNames) : count(a) > 0}
                  r       == Get(hint_result')
              IN  /\ IsNone(r) <=> matches = {}
                  /\ ~IsNone(r) =>
                         /\ Len(Get(r)) <= 2
                         /\ Len(Get(r)) = (IF Cardinality(named) < 2
                                           THEN Cardinality(named) ELSE 2)
                         /\ \A i, j \in 1..Len(Get(r)) : i # j => Get(r)[i] # Get(r)[j]
                         /\ \A i \in 1..Len(Get(r)) : Get(r)[i] \in named
                         /\ \A i, j \in 1..Len(Get(r)) :
                                i < j => count(Get(r)[i]) >= count(Get(r)[j])
                         /\ \A a \in named \ Range(Get(r)) :
                                \A i \in 1..Len(Get(r)) : count(Get(r)[i]) >= count(a)
                  /\ UNCHANGED <<patterns, patterns_file>>
      ]_vars

\* six patterns match "fix", the oldest names personas the hint leaves out
C26_Witness ==
    /\ Len(patterns) = 6
    /\ patterns[1].agents = <<"Architect", "Analyst">>
    /\ \A p \in 2..6 : patterns[p].agents = <<"Alfred">>
    /\ hint_result = Some(Some(<<"Alfred">>))

\* C27: suggest_actions returns a rebalance suggestion if and only if the
\* least persona proficiency is below 0.8, and its target is a persona of
\* least proficiency; every suggestion returned is appended to the overseer
\* log, which grows by exactly the number of suggestions returned, and the
\* evolution state is unchanged.
C27_RebalanceBelowThreshold ==
    [][suggest_actions =>
          LET r      == Get(suggested')
              prof   == evolution_state.agent_proficiency
              least  == CHOOSE v \in {prof[a] : a \in ProficiencyKeys} :
                            \A a \in ProficiencyKeys : v <= prof[a]
              rebal  == {i \in 1..Len(r) : r[i].id = "rebalance_agents"}
          IN  /\ rebal # {} <=> least < 80
              /\ Cardinality(rebal) <= 1
              /\ \A i \in rebal :
                     /\ ~IsNone(r[i].target_agent)
                     /\ Get(r[i].target_agent) \in ProficiencyKeys
                     /\ prof[Get(r[i].target_agent)] = least
              /\ Len(overseer_file') = Len(overseer_file) + Len(r)
              /\ SubSeq(overseer_file', 1, Len(overseer_file)) = overseer_file
              /\ SubSeq(overseer_file', Len(overseer_file) + 1, Len(overseer_file')) = r
              /\ UNCHANGED evolutionVars
      ]_vars

\* two personas tie for the least proficiency and the first was targeted, in
\* each of two calls
C27_Witness ==
    /\ evolution_state.agent_proficiency["Alfred"] = 70
    /\ evolution_state.agent_proficiency["Analyst"] = 70
    /\ ~IsNone(suggested)
    /\ Len(Get(suggested)) = 1
    /\ Get(suggested)[1].id = "rebalance_agents"
    /\ Get(suggested)[1].target_agent = Some("Alfred")
    /\ Len(overseer_file) = 2

(***************************************************************************)
(* Properties of the memory clean-up                                       *)
(***************************************************************************)
\* C28: after cleanup_old_entries(days) the conversation memory holds exactly
\* the records whose timestamp is later than now - days, in their original
\* relative order, and the persisted log holds exactly the records of the
\* in-memory list; a record newer than the cutoff is never dropped.
C28_CleanupKeepsNewerRecords ==
    [][\A days \in CleanupDays :
          cleanup_old_entries(days) =>
              LET keep   == {p \in 1..Len(messages) : messages[p].timestamp > now - days}
                  nth(i) == CHOOSE p \in keep : Cardinality({q \in keep : q < p}) = i - 1
              IN  /\ Len(messages') = Cardinality(keep)
                  /\ \A i \in 1..Len(messages') : messages'[i] = messages[nth(i)]
                  /\ \A p \in 1..Len(messages) :
                         messages[p].timestamp > now - days =>
                             \E i \in 1..Len(messages') : messages'[i] = messages[p]
                  /\ \A i \in 1..Len(messages') : messages'[i].timestamp > now - days
                  /\ messages_file' = messages'
      ]_vars

\* a clean-up has dropped one record and the memory holds two records of the
\* current day, persisted as they are
C28_Witness ==
    /\ cleaned = Some(1)
    /\ Len(messages) = 2
    /\ messages_file = messages
    /\ \A i \in 1..Len(messages) : messages[i].timestamp = now

(***************************************************************************)
(* Properties of the Clerk                                                 *)
(***************************************************************************)
\* the events a step appends to the consent log and the tool invocations
NewEvents == SubSeq(effects', Len(effects) + 1, Len(effects'))

\* C29: Clerk.execute invokes a tool only if its name is in allowed_tools; a
\* destructive tool is never invoked in read-only mode, is invoked in
\* interactive mode only when a consent token is supplied, the consent-log
\* entry being written before the invocation, and is invoked in autonomous
\* mode only when the autonomy token file exists; every blocked call returns
\* ok = false and invokes nothing.
C29_ClerkGuardsTools ==
    [][\A name \in ClerkTools, args \in ClerkArgs, consent_token \in ConsentTokens,
          tool_ok \in BOOLEAN :
          Clerk_execute(name, args, consent_token, tool_ok) =>
              LET md       == IF IsNone(cfg.safety_mode) THEN "interactive"
                              ELSE Get(cfg.safety_mode)
                  destr    == name \in {"write_file", "run_subprocess", "open_path",
                                        "organize_downloads"}
                  invoked  == \E i \in 1..Len(NewEvents) : NewEvents[i].kind = "invoke"
                  hasToken == ~IsNone(consent_token) /\ Get(consent_token) # ""
                  blocked  == \/ name \notin cfg.allowed_tools
                              \/ destr /\ md = "read-only"
                              \/ destr /\ md = "interactive" /\ ~hasToken
                              \/ destr /\ md = "autonomous" /\ ~autonomy_token
              IN  /\ \A i \in 1..Len(NewEvents) : NewEvents[i].tool = name
                  /\ invoked => name \in cfg.allowed_tools
                  /\ destr /\ md = "read-only" => ~invoked
                  /\ destr /\ md = "interactive" /\ invoked =>
                         /\ hasToken
                         /\ NewEvents = <<[kind |-> "consent", tool |-> name],
                                          [kind |-> "invoke", tool |-> name]>>
                  /\ destr /\ md = "autonomous" /\ invoked => autonomy_token
                  /\ blocked => /\ ~Get(clerk_result').ok
                                /\ effects' = effects
      ]_vars

\* in interactive mode an allowed write_file was called with a consent token:
\* the consent entry precedes the invocation and the call succeeded
C29_Witness ==
    /\ _safety_mode(cfg) = "interactive"
    /\ effects = <<[kind |-> "consent", tool |-> "write_file"],
                   [kind |-> "invoke", tool |-> "write_file"]>>
    /\ ~IsNone(clerk_result)
    /\ Get(clerk_result).ok

(***************************************************************************)
(* Properties of error replies                                             *)
(***************************************************************************)
\* the reply holds the text "[Error]" or "[LLM Error]"
ErrorMarked(reply) ==
    \E w \in {"[Error]", "[LLM Error]"} :
        \E i \in 1..Len(reply) :
            i + Len(w) - 1 <= Len(reply) /\ SubSeq(reply, i, i + Len(w) - 1) = w

\* C30: whenever the final reply of a request contains an error marker
\* ("[Error]" or "[LLM Error]"), its confidence score is at most 0.5, so the
\* interaction is recorded in the evolution ledger with success = false and no
\* persona's proficiency is raised by that request: the ledger is written by
\* the recording step of the request only, and no step of a request whose
\* final reply is marked raises the success count or a proficiency.
C30_ErrorRepliesNeverCountAsSuccess ==
    [][/\ Think_Integrate /\ ErrorMarked(Get(final_response')) =>
              Get(chain').confidence <= 50
       /\ Think_Record /\ ErrorMarked(Get(final_response)) =>
              /\ Get(chain).confidence <= 50
              /\ evolution_state'.total_interactions
                     = evolution_state.total_interactions + 1
       /\ ~IsNone(final_response') /\ ErrorMarked(Get(final_response')) =>
              /\ evolution_state'.successful_resolutions
                     = evolution_state.successful_resolutions
              /\ evolution_state'.agent_proficiency = evolution_state.agent_proficiency
       /\ evolution_state' # evolution_state => Think_Record
      ]_vars

\* with the model missing, a question was answered by think with the
\* backend's error text: scored at most 0.5, recorded as one unsuccessful
\* interaction of the consulted personas, every proficiency as it was
C30_Witness ==
    /\ pc = "respond"
    /\ via = "brain"
    /\ ~backend.available
    /\ ErrorMarked(Get(final_response))
    /\ Get(chain).confidence <= 50
    /\ Get(chain).agents_consulted # <<>>
    /\ evolution_state.total_interactions = 1
    /\ evolution_state.successful_resolutions = 0
    /\ evolution_state.agent_proficiency = InitialEvolutionState.agent_proficiency

====
